---- MODULE Spec2Model ----
(***************************************************************************)
(* A model of the network-dashboard analyzer: the access-control evaluator *)
(* (NetworkAnalyzer.is_authorized over the compiled-in rule table), the    *)
(* rolling metrics store (DeviceData and the analyzer's counters), the     *)
(* serial line input, and the capture, generator and GUI threads.          *)
(*                                                                         *)
(* The module holds several specifications over one set of variables; each *)
(* specification drives one part of the program and parks the variables of *)
(* the other parts at an idle value.                                       *)
(*   SpecAcl     calls of is_authorized on flows drawn from bounded sets   *)
(*   SpecDevice  add_traffic_point calls on one DeviceData object          *)
(*   SpecSerial  process_serial_data and is_authorized calls on a          *)
(*               NetworkAnalyzer                                           *)
(*   SpecNetworkData the simulated NetworkData store of the three          *)
(*               dashboards: its constructor and its updates               *)
(*   SpecCharts  update_data calls on a line chart of the three            *)
(*               dashboards                                                *)
(*   SpecMetrics the clamped random walks: the gauges and load lines of    *)
(*               NetworkData, system_load and cpu_usage of the analyzer    *)
(*   SpecAnalyzer the serial capture of network_analyzer.py, from          *)
(*               start_capture to its end, and packets handed to           *)
(*               packet_callback and process_packet                        *)
(*   SpecThreads a capture with its simulate_traffic thread, and the GUI   *)
(*               thread refreshing the charts                              *)
(*   SpecCapture start_capture / stop_capture and the threads they start   *)
(*               and end; SpecCaptureFair adds the scheduling              *)
(*   SpecLock    the generator and GUI threads at the grain of their       *)
(*               with self.lock blocks; SpecLockFair adds the scheduling   *)
(*   SpecGenerator the capture and its simulate_traffic thread, statement  *)
(*               by statement                                              *)
(*   SpecRestart SpecCapture with start_capture called again after it      *)
(*               has returned                                              *)
(***************************************************************************)
EXTENDS Integers, Sequences, FiniteSets, TLC

VARIABLES
    acl_rules,      \* NetworkAnalyzer.acl_rules: the rule table, a sequence
    flow,           \* the arguments of an is_authorized call
    called,         \* whether that call has returned
    verdict,        \* what it returned
    now,            \* time.time(), in ticks of half a second
    dev,            \* one DeviceData object (SpecDevice)
    recorded,       \* history: the arguments of every recording call
    network_data,   \* one NetworkData object (SpecNetworkData)
    dashboard,      \* the dashboard window that owns it (SpecNetworkData),
                    \* or one with a line chart (SpecCharts)
    devices,        \* NetworkAnalyzer.devices: ip -> DeviceData
    total_authorized,   \* NetworkAnalyzer.total_authorized
    total_unauthorized, \* NetworkAnalyzer.total_unauthorized
    system_load,    \* NetworkAnalyzer.system_load
    cpu_usage,      \* NetworkAnalyzer.cpu_usage
    memory_usage,   \* NetworkAnalyzer.memory_usage
    running,        \* NetworkAnalyzer.running
    lock,           \* NetworkAnalyzer.lock: "free" or the holder
    serial_log,     \* history: the lines process_serial_data was given
    packet_log,     \* history: the packets handed to the analyzer
    escaped,        \* the exception the last call let through, or None
    generators,     \* the simulate_traffic threads, in the order spawned
    capture,        \* where the thread that calls start_capture is
    gui             \* where the GUI thread is in update_all_charts

queryVars == <<flow, called, verdict>>
objVars == <<dev, recorded, network_data, dashboard>>
analyzerVars == <<devices, total_authorized, total_unauthorized, system_load,
                  cpu_usage, memory_usage, running, lock>>
serialVars == <<serial_log, packet_log, escaped>>
threadVars == <<generators, capture, gui>>
vars == <<acl_rules, flow, called, verdict, now, dev, recorded, network_data,
          dashboard,
          devices,
          total_authorized, total_unauthorized, system_load, cpu_usage,
          memory_usage, running, lock, serial_log, packet_log, escaped,
          generators,
          capture, gui>>

(***************************************************************************)
(* Bounds of the model.                                                    *)
(***************************************************************************)
\* Destination ports 0..MaxPort are tried by is_authorized calls.
MaxPort == 444

\* SpecDevice: add_traffic_point is called at most MaxCalls times on the
\* object, at most MaxUnauthorized of the calls with is_authorized = False.
MaxCalls == 102
MaxUnauthorized == 1

\* SpecSerial: process_serial_data is called at most MaxLines times.
MaxLines == 3

\* SpecAnalyzer: at most MaxInputs serial lines and packets arrive.
MaxInputs == 2

\* SpecThreads, SpecCapture: the generator threads record at most MaxSamples
\* samples, and start_capture is called at most MaxStarts times.
MaxSamples == 1
MaxStarts == 1
\* SpecNetworkData: update() is called at most MaxUpdates times after the
\* constructor.
MaxUpdates == 3

(***************************************************************************)
(* The device list and the rule table (compiled-in constants).             *)
(***************************************************************************)
device_ips ==
    << "192.168.1.100", "192.168.1.101", "192.168.1.102", "192.168.1.103",
       "192.168.1.104", "192.168.1.105", "192.168.1.106" >>

device_names ==
    << "Server", "Workstation 1", "Workstation 2", "Dev Machine",
       "Admin Laptop", "IoT Gateway", "Testing VM" >>

\* A rule is <<src_ip, dst_ip, protocol, <<lo, hi>>>>, as the tuples of the code.
_initialize_acl_rules ==
    << <<"192.168.1.101", "192.168.1.100", "TCP", <<80, 443>>>>,
       <<"192.168.1.102", "192.168.1.100", "TCP", <<80, 443>>>>,
       <<"192.168.1.103", "192.168.1.100", "TCP", <<80, 443>>>>,
       <<"192.168.1.104", "192.168.1.100", "TCP", <<80, 443>>>>,
       <<"192.168.1.105", "192.168.1.100", "TCP", <<80, 443>>>>,
       <<"192.168.1.106", "192.168.1.100", "TCP", <<80, 443>>>>,
       <<"192.168.1.104", "192.168.1.100", "TCP", <<22, 22>>>>,
       <<"192.168.1.104", "192.168.1.101", "TCP", <<22, 22>>>>,
       <<"192.168.1.104", "192.168.1.102", "TCP", <<22, 22>>>>,
       <<"192.168.1.104", "192.168.1.103", "TCP", <<22, 22>>>>,
       <<"192.168.1.104", "192.168.1.105", "TCP", <<22, 22>>>>,
       <<"192.168.1.104", "192.168.1.106", "TCP", <<22, 22>>>>,
       <<"192.168.1.103", "192.168.1.100", "TCP", <<20, 21>>>>,
       <<"192.168.1.101", "192.168.1.100", "UDP", <<53, 53>>>>,
       <<"192.168.1.102", "192.168.1.100", "UDP", <<53, 53>>>>,
       <<"192.168.1.103", "192.168.1.100", "UDP", <<53, 53>>>>,
       <<"192.168.1.104", "192.168.1.100", "UDP", <<53, 53>>>>,
       <<"192.168.1.105", "192.168.1.100", "UDP", <<53, 53>>>>,
       <<"192.168.1.106", "192.168.1.100", "UDP", <<53, 53>>>> >>

(***************************************************************************)
(* is_authorized: a scan of the table in insertion order that returns True *)
(* at the first rule whose condition holds and False after the last rule.  *)
(***************************************************************************)
\* Mutant: the destination is not compared.
RuleAppliesAnyDestination(rule, src_ip, dst_ip, protocol, port) ==
    /\ src_ip = rule[1]
    /\ protocol = rule[3]
    /\ rule[4][1] <= port
    /\ port <= rule[4][2]

\* Mutant: the protocol is compared without regard to case.
RuleAppliesAnyCase(rule, src_ip, dst_ip, protocol, port) ==
    /\ src_ip = rule[1]
    /\ dst_ip = rule[2]
    /\ protocol \in {rule[3], IF rule[3] = "TCP" THEN "tcp" ELSE "udp"}
    /\ rule[4][1] <= port
    /\ port <= rule[4][2]

\* Mutant: the port range of the rule is not looked at.
RuleAppliesAnyPort(rule, src_ip, dst_ip, protocol, port) ==
    /\ src_ip = rule[1]
    /\ dst_ip = rule[2]
    /\ protocol = rule[3]

\* Mutant: the upper port bound taken as exclusive.
RuleAppliesExclusiveHi(rule, src_ip, dst_ip, protocol, port) ==
    /\ src_ip = rule[1]
    /\ dst_ip = rule[2]
    /\ protocol = rule[3]
    /\ rule[4][1] <= port
    /\ port < rule[4][2]

\* The condition of the if statement inside the loop.
RuleApplies(rule, src_ip, dst_ip, protocol, port) ==
    /\ src_ip = rule[1]
    /\ dst_ip = rule[2]
    /\ protocol = rule[3]
    /\ rule[4][1] <= port
    /\ port <= rule[4][2]

RECURSIVE ScanRules(_, _, _, _, _, _)
ScanRules(rules, i, src_ip, dst_ip, protocol, port) ==
    IF i > Len(rules) THEN FALSE
    ELSE IF RuleApplies(rules[i], src_ip, dst_ip, protocol, port) THEN TRUE
    ELSE ScanRules(rules, i + 1, src_ip, dst_ip, protocol, port)

\* Mutant: the loop returns after looking at the first rule only.
is_authorized_first_rule_only(src_ip, dst_ip, protocol, port) ==
    /\ Len(acl_rules) > 0
    /\ RuleApplies(acl_rules[1], src_ip, dst_ip, protocol, port)

\* Mutant: the answer depends on the capture flag.
is_authorized_while_running(src_ip, dst_ip, protocol, port) ==
    /\ running
    /\ ScanRules(acl_rules, 1, src_ip, dst_ip, protocol, port)

is_authorized(src_ip, dst_ip, protocol, port) ==
    ScanRules(acl_rules, 1, src_ip, dst_ip, protocol, port)

(***************************************************************************)
(* Python floats.  The percentage accessors compute with IEEE-754 binary64 *)
(* numbers: int / int is the correctly rounded quotient, float * 100 and   *)
(* float + float round to nearest, ties to even.  A float is modelled      *)
(* bit-exactly as [bits, exp]: bits is the 53-bit significand, most        *)
(* significant bit first and equal to 1, and the value is bits * 2^exp;    *)
(* zero is [bits |-> <<>>, exp |-> 0].  Only finite values >= 0 occur.     *)
(***************************************************************************)
Zeros(k) == [i \in 1..k |-> 0]

\* The binary digits of a natural number, without leading zeros.
RECURSIVE Nat2Bits(_)
Nat2Bits(n) == IF n = 0 THEN <<>> ELSE Append(Nat2Bits(n \div 2), n % 2)

\* A bit string without its leading zeros.
StripZeros(b) ==
    IF \A i \in 1..Len(b) : b[i] = 0 THEN <<>>
    ELSE LET first == CHOOSE i \in 1..Len(b) :
                         b[i] = 1 /\ \A j \in 1..(i - 1) : b[j] = 0
         IN  SubSeq(b, first, Len(b))

\* Bit strings as big-endian byte strings and back, for carry arithmetic.
Bytes(b) ==
    LET p == Zeros((8 - (Len(b) % 8)) % 8) \o b
    IN  [j \in 1..(Len(p) \div 8) |->
            LET o == 8 * (j - 1)
            IN  128 * p[o + 1] + 64 * p[o + 2] + 32 * p[o + 3] + 16 * p[o + 4]
                + 8 * p[o + 5] + 4 * p[o + 6] + 2 * p[o + 7] + p[o + 8]]

BitWeights == <<128, 64, 32, 16, 8, 4, 2, 1>>

\* The bits of a byte string, eight per byte.
RawBits(bytes) ==
    [i \in 1..(8 * Len(bytes)) |->
        (bytes[((i - 1) \div 8) + 1] \div BitWeights[((i - 1) % 8) + 1]) % 2]

Bits(bytes) == StripZeros(RawBits(bytes))

\* Long division of the remainder r by d, n more bytes (8 * n binary places)
\* of the quotient: its bytes and the remainder left (d < 2^10).
RECURSIVE LongDivBytes(_, _, _, _)
LongDivBytes(r, d, n, acc) ==
    IF n = 0 THEN [q |-> acc, r |-> r]
    ELSE LET v == r * 256
         IN  LongDivBytes(v % d, d, n - 1, Append(acc, v \div d))

\* Long division of a by d carried to 64 binary places: the bits of
\* floor(a * 2^64 / d) and the remainder left.
LongDiv(a, d) ==
    LET f == LongDivBytes(a % d, d, 8, <<>>)
    IN  [q |-> StripZeros(Nat2Bits(a \div d) \o RawBits(f.q)), r |-> f.r]

\* The byte string N times the small integer k, from the last byte backwards.
RECURSIVE MulCarry(_, _, _, _, _)
MulCarry(N, k, i, carry, acc) ==
    IF i = 0 THEN <<carry>> \o acc
    ELSE LET v == N[i] * k + carry
         IN  MulCarry(N, k, i - 1, v \div 256, <<v % 256>> \o acc)

\* The sum of two byte strings of the same length.
RECURSIVE AddCarry(_, _, _, _, _)
AddCarry(A, B, i, carry, acc) ==
    IF i = 0 THEN <<carry>> \o acc
    ELSE LET v == A[i] + B[i] + carry
         IN  AddCarry(A, B, i - 1, v \div 256, <<v % 256>> \o acc)

\* The bit string N times the small integer k (k < 2^8).
MulBits(N, k) ==
    LET b == Bytes(N) IN Bits(MulCarry(b, k, Len(b), 0, <<>>))

\* The sum of two bit strings.
AddBits(A, B) ==
    LET a == Bytes(A)
        b == Bytes(B)
        n == IF Len(a) > Len(b) THEN Len(a) ELSE Len(b)
    IN  Bits(AddCarry(Zeros(n - Len(a)) \o a, Zeros(n - Len(b)) \o b,
                      n, 0, <<>>))

FloatZero == [bits |-> <<>>, exp |-> 0]

\* The float nearest to (N + f) * 2^exp, where N is a bit string without
\* leading zeros and sticky tells whether the fraction f in [0, 1) is not 0
\* (sticky needs Len(N) > 53).  Ties go to the even significand.
RoundToFloat(N, exp, sticky) ==
    IF N = <<>> THEN FloatZero
    ELSE IF Len(N) <= 53
    THEN [bits |-> N \o Zeros(53 - Len(N)), exp |-> exp - (53 - Len(N))]
    ELSE LET keep == SubSeq(N, 1, 53)
             half == N[54]
             rest == sticky \/ (\E i \in 55..Len(N) : N[i] = 1)
             up   == half = 1 /\ (rest \/ keep[53] = 1)
             kept == IF up THEN AddBits(keep, <<1>>) ELSE keep
             e    == exp + (Len(N) - 53)
         IN  IF Len(kept) = 54
             THEN [bits |-> SubSeq(kept, 1, 53), exp |-> e + 1]
             ELSE [bits |-> kept, exp |-> e]

\* float(n) for an int n >= 0.
FloatOfInt(n) == RoundToFloat(Nat2Bits(n), 0, FALSE)

\* a / b of two ints, a >= 0, b > 0 (Python's true division).  The quotient
\* is carried to 64 binary places, more than 54 significant bits for b < 2^10.
FloatDiv(a, b) ==
    IF a = 0 THEN FloatZero
    ELSE LET d == LongDiv(a, b)
         IN  RoundToFloat(d.q, 0 - 64, d.r # 0)

\* x * k of a float and a small int k > 0 (k converts exactly).
FloatMulInt(x, k) ==
    IF x.bits = <<>> THEN FloatZero
    ELSE RoundToFloat(MulBits(x.bits, k), x.exp, FALSE)

\* x + y of two floats.
FloatAdd(x, y) ==
    IF x.bits = <<>> THEN y
    ELSE IF y.bits = <<>> THEN x
    ELSE LET e == IF x.exp < y.exp THEN x.exp ELSE y.exp
         IN  RoundToFloat(AddBits(x.bits \o Zeros(x.exp - e),
                                  y.bits \o Zeros(y.exp - e)), e, FALSE)

(***************************************************************************)
(* Python's None, and the truth value of an optional string argument.      *)
(***************************************************************************)
None == "None"
Truthy(x) == x \notin {None, ""}

\* ZeroDivisionError raised by int / int; it propagates through the
\* arithmetic that follows.
ZeroDivisionError == [bits |-> <<>>, exp |-> 0, raised |-> "ZeroDivisionError"]
Raised(x) == "raised" \in DOMAIN x

TrueDiv(a, b) == IF b = 0 THEN ZeroDivisionError ELSE FloatDiv(a, b)
TimesInt(x, k) == IF Raised(x) THEN x ELSE FloatMulInt(x, k)
Plus(x, y) == IF Raised(x) THEN x ELSE IF Raised(y) THEN y ELSE FloatAdd(x, y)

(***************************************************************************)
(* DeviceData.                                                             *)
(***************************************************************************)
\* deque(maxlen=100)
maxlen == 100
\* range(100): the number of zero-traffic entries the constructor appends
prefill == 100

\* Mutant: append on a list, which never evicts.
ListAppend(q, x) == Append(q, x)

\* Mutant: a full deque drops its newest (rightmost) item.
DequeAppendDropNewest(q, x) ==
    IF Len(q) >= maxlen THEN Append(SubSeq(q, 1, Len(q) - 1), x)
    ELSE Append(q, x)

\* deque.append with maxlen: a full deque drops its oldest (leftmost) item.
DequeAppend(q, x) ==
    IF Len(q) >= maxlen THEN Append(Tail(q), x) ELSE Append(q, x)

\* The deque after a loop has appended items to q one by one: every append
\* past maxlen drops the oldest entry, so the newest maxlen entries remain.
DequeFill(q, items) ==
    LET all == q \o items
    IN  IF Len(all) > maxlen
        THEN SubSeq(all, Len(all) - maxlen + 1, Len(all))
        ELSE all

\* The zero-traffic entries of the constructor, half a second (one tick)
\* apart and ending one tick before current_time: i runs over range(100).
InitialTraffic(current_time) ==
    [j \in 1..prefill |-> <<current_time - (prefill - (j - 1)), 0, TRUE>>]

\* DeviceData.__init__
DeviceData(ip, name, current_time) ==
    [ ip                   |-> ip,
      name                 |-> name,
      traffic_history      |-> DequeFill(<<>>, InitialTraffic(current_time)),
      auth_history         |-> DequeFill(<<>>, [j \in 1..prefill |-> TRUE]),
      total_packets        |-> 0,
      authorized_packets   |-> 0,
      unauthorized_packets |-> 0,
      connections          |-> <<>>,
      last_dst_ip          |-> None,
      last_protocol        |-> None ]

\* Mutant: both counters move with every sample.
count_packet_twice(d, is_auth, dst_ip, protocol) ==
    [ d EXCEPT
        !.total_packets = @ + 1,
        !.authorized_packets = @ + 1,
        !.unauthorized_packets = @ + 1,
        !.last_dst_ip = IF Truthy(dst_ip) THEN dst_ip ELSE @,
        !.last_protocol = IF Truthy(protocol) THEN protocol ELSE @ ]

\* DeviceData.add_traffic_point, statement by statement, with t what
\* time.time() returns: the two appends, then the counters and last_*.
append_traffic(d, value, is_auth, t) ==
    [ d EXCEPT !.traffic_history = DequeAppend(@, <<t, value, is_auth>>) ]

append_auth(d, is_auth) ==
    [ d EXCEPT !.auth_history = DequeAppend(@, is_auth) ]

count_packet(d, is_auth, dst_ip, protocol) ==
    [ d EXCEPT
        !.total_packets = @ + 1,
        !.authorized_packets = IF is_auth THEN @ + 1 ELSE @,
        !.unauthorized_packets = IF is_auth THEN @ ELSE @ + 1,
        !.last_dst_ip = IF Truthy(dst_ip) THEN dst_ip ELSE @,
        !.last_protocol = IF Truthy(protocol) THEN protocol ELSE @ ]

\* DeviceData.add_traffic_point
add_traffic_point(d, value, is_auth, dst_ip, protocol, t) ==
    count_packet(append_auth(append_traffic(d, value, is_auth, t), is_auth),
                 is_auth, dst_ip, protocol)

\* DeviceData.get_traffic_data: three lists read off traffic_history.
get_traffic_data(d) ==
    << [i \in 1..Len(d.traffic_history) |-> d.traffic_history[i][1]],
       [i \in 1..Len(d.traffic_history) |-> d.traffic_history[i][2]],
       [i \in 1..Len(d.traffic_history) |-> d.traffic_history[i][3]] >>

\* Mutant: the zero-total guard left out.
device_auth_percentage_unguarded(d) ==
    TimesInt(TrueDiv(d.authorized_packets, d.total_packets), 100)

\* Mutant: the share of the authorized samples of the rolling window.
device_auth_percentage_of_window(d) ==
    IF d.total_packets = 0 THEN FloatOfInt(100)
    ELSE TimesInt(TrueDiv(Cardinality({i \in 1..Len(d.traffic_history) :
                                          d.traffic_history[i][3]}),
                          Len(d.traffic_history)), 100)

\* DeviceData.get_auth_percentage
device_get_auth_percentage(d) ==
    IF d.total_packets = 0 THEN FloatOfInt(100)
    ELSE TimesInt(TrueDiv(d.authorized_packets, d.total_packets), 100)

\* DeviceData.get_unauth_percentage
device_get_unauth_percentage(d) ==
    IF d.total_packets = 0 THEN FloatZero
    ELSE TimesInt(TrueDiv(d.unauthorized_packets, d.total_packets), 100)

(***************************************************************************)
(* SpecAcl: is_authorized is called on flows drawn from bounded sets.      *)
(***************************************************************************)
\* An address outside the monitored device list.
UnknownIp == "10.0.0.99"

Addresses == {device_ips[i] : i \in 1..Len(device_ips)} \cup {UnknownIp}

\* "OTHER" is what process_packet passes for a packet without TCP or UDP
\* layer; "tcp" differs from "TCP" in case only.
Protocols == {"TCP", "UDP", "tcp", "OTHER"}

Ports == 0..MaxPort

(***************************************************************************)
(* Strings: the str methods and conversions process_serial_data uses.      *)
(***************************************************************************)
CharAt(s, i) == SubSeq(s, i, i)

IsSpace(c) == c \in {" ", "\t", "\n", "\r"}

RECURSIVE lstrip(_)
lstrip(s) ==
    IF Len(s) > 0 /\ IsSpace(CharAt(s, 1)) THEN lstrip(SubSeq(s, 2, Len(s)))
    ELSE s

RECURSIVE rstrip(_)
rstrip(s) ==
    IF Len(s) > 0 /\ IsSpace(CharAt(s, Len(s)))
    THEN rstrip(SubSeq(s, 1, Len(s) - 1))
    ELSE s

\* str.strip()
strip(s) == rstrip(lstrip(s))

\* str.split(sep) for a one-character separator: the fields between the
\* separators, empty fields kept; the empty string splits into [""].
split(s, sep) ==
    LET cuts  == {i \in 1..Len(s) : CharAt(s, i) = sep}
        n     == Cardinality(cuts)
        \* the position of the k-th separator; 0 before the first field and
        \* Len(s) + 1 after the last
        cut(k) == IF k = 0 THEN 0
                  ELSE IF k > n THEN Len(s) + 1
                  ELSE CHOOSE i \in cuts :
                          Cardinality({j \in cuts : j < i}) = k - 1
    IN  [k \in 1..(n + 1) |-> SubSeq(s, cut(k - 1) + 1, cut(k) - 1)]

DigitChars == "0123456789"
IsDigit(c) == \E k \in 1..10 : CharAt(DigitChars, k) = c
DigitValue(c) == (CHOOSE k \in 1..10 : CharAt(DigitChars, k) = c) - 1
AllDigits(t) == Len(t) > 0 /\ \A i \in 1..Len(t) : IsDigit(CharAt(t, i))

RECURSIVE DecimalValue(_)
DecimalValue(t) ==
    IF Len(t) = 0 THEN 0
    ELSE 10 * DecimalValue(SubSeq(t, 1, Len(t) - 1))
         + DigitValue(CharAt(t, Len(t)))

Signed(t) == Len(t) > 0 /\ CharAt(t, 1) \in {"+", "-"}
Unsigned(t) == IF Signed(t) THEN SubSeq(t, 2, Len(t)) ELSE t
SignOf(t) == IF Len(t) > 0 /\ CharAt(t, 1) = "-" THEN 0 - 1 ELSE 1

\* int(x) of a string: surrounding whitespace and a sign are accepted, then
\* decimal digits; anything else raises ValueError.  (Python also accepts
\* single underscores between digits; no input here has one.)
py_int(x) ==
    LET t == strip(x)
    IN  IF AllDigits(Unsigned(t))
        THEN [raised |-> None, value |-> SignOf(t) * DecimalValue(Unsigned(t))]
        ELSE [raised |-> "ValueError", value |-> 0]

\* float(x) of a string, for the decimal spellings "12", "12.", ".5" and
\* "12.5" with at most three fractional digits; the value is returned in
\* thousandths (v stands for the float nearest to v / 1000).  Anything else
\* raises ValueError.  (Python also accepts exponents, more digits,
\* underscores, "inf" and "nan"; no input here uses them.)
py_float(x) ==
    LET t    == strip(x)
        u    == Unsigned(t)
        dots == {i \in 1..Len(u) : CharAt(u, i) = "."}
        p    == IF dots = {} THEN Len(u) + 1 ELSE CHOOSE i \in dots : TRUE
        ip   == SubSeq(u, 1, p - 1)
        fp   == SubSeq(u, p + 1, Len(u))
        ok   == /\ Cardinality(dots) <= 1
                /\ ip = "" \/ AllDigits(ip)
                /\ fp = "" \/ AllDigits(fp)
                /\ ~(ip = "" /\ fp = "")
                /\ Len(fp) <= 3
        scale == <<1000, 100, 10, 1>>[Len(fp) + 1]
    IN  IF ok
        THEN [raised |-> None,
              value |-> SignOf(t) * (1000 * DecimalValue(ip)
                                     + scale * DecimalValue(fp))]
        ELSE [raised |-> "ValueError", value |-> 0]

\* except Exception: the exceptions the handlers catch.
IsException(e) ==
    e \in {"ValueError", "ZeroDivisionError", "ImportError", "SerialException",
           "UnicodeDecodeError"}

\* Mutant: the loop over device_ips stops one device short.
_initialize_devices_short(current_time) ==
    [a \in {device_ips[i] : i \in 1..Len(device_ips) - 1} |->
        DeviceData(a,
                   device_names[CHOOSE i \in 1..Len(device_ips) :
                                   device_ips[i] = a],
                   current_time)]

(***************************************************************************)
(* NetworkAnalyzer (network_analyzer.py).                                  *)
(***************************************************************************)
\* NetworkAnalyzer._initialize_devices: one DeviceData per address.
_initialize_devices(current_time) ==
    [a \in {device_ips[i] : i \in 1..Len(device_ips)} |->
        DeviceData(a,
                   device_names[CHOOSE i \in 1..Len(device_ips) :
                                   device_ips[i] = a],
                   current_time)]

\* NetworkAnalyzer.get_auth_percentage
get_auth_percentage ==
    LET total == total_authorized + total_unauthorized
    IN  IF total = 0 THEN FloatOfInt(100)
        ELSE TimesInt(TrueDiv(total_authorized, total), 100)

\* NetworkAnalyzer.get_unauth_percentage
get_unauth_percentage ==
    LET total == total_authorized + total_unauthorized
    IN  IF total = 0 THEN FloatZero
        ELSE TimesInt(TrueDiv(total_unauthorized, total), 100)

\* Mutant: a byte count that is no number is taken as 0 and recorded.
serial_body_lenient(serial_data, t) ==
    LET data == split(strip(serial_data), ",")
        here == [devices |-> devices,
                 total_authorized |-> total_authorized,
                 total_unauthorized |-> total_unauthorized]
    IN  IF Len(data) >= 5
        THEN LET port == py_int(data[4])
                 bytes == py_float(data[5])
             IN  IF port.raised # None
                 THEN [raised |-> port.raised, st |-> here]
                 ELSE IF data[1] \in DOMAIN devices
                 THEN LET is_auth == is_authorized(data[1], data[2], data[3],
                                                   port.value)
                      IN  [raised |-> None,
                           st |-> [devices |->
                                      [devices EXCEPT ![data[1]] =
                                          add_traffic_point(@, bytes.value,
                                              is_auth, data[2], data[3], t)],
                                   total_authorized |->
                                      IF is_auth THEN total_authorized + 1
                                      ELSE total_authorized,
                                   total_unauthorized |->
                                      IF is_auth THEN total_unauthorized
                                      ELSE total_unauthorized + 1]]
                 ELSE [raised |-> None, st |-> here]
        ELSE [raised |-> None, st |-> here]

\* The body of the with statement of process_serial_data, statement by
\* statement: the exception it raises (None when it ends normally) and the
\* analyzer state it leaves behind.  t is what time.time() returns.
serial_body(serial_data, t) ==
    LET data == split(strip(serial_data), ",")
        here == [devices |-> devices,
                 total_authorized |-> total_authorized,
                 total_unauthorized |-> total_unauthorized]
    IN  IF Len(data) >= 5
        THEN LET port == py_int(data[4])
                 bytes == py_float(data[5])
             IN  IF port.raised # None
                 THEN [raised |-> port.raised, st |-> here]
                 ELSE IF bytes.raised # None
                 THEN [raised |-> bytes.raised, st |-> here]
                 ELSE IF data[1] \in DOMAIN devices
                 THEN LET is_auth == is_authorized(data[1], data[2], data[3],
                                                   port.value)
                      IN  [raised |-> None,
                           st |-> [devices |->
                                      [devices EXCEPT ![data[1]] =
                                          add_traffic_point(@, bytes.value,
                                              is_auth, data[2], data[3], t)],
                                   total_authorized |->
                                      IF is_auth THEN total_authorized + 1
                                      ELSE total_authorized,
                                   total_unauthorized |->
                                      IF is_auth THEN total_unauthorized
                                      ELSE total_unauthorized + 1]]
                 ELSE [raised |-> None, st |-> here]
        ELSE [raised |-> None, st |-> here]

\* NetworkAnalyzer.process_serial_data: the lock is taken, the body runs, the
\* with statement releases the lock whether or not the body raised, and
\* except Exception swallows what it catches.
process_serial_data(serial_data) ==
    /\ lock = "free"
    /\ LET out == serial_body(serial_data, now)
       IN  /\ devices' = out.st.devices
           /\ total_authorized' = out.st.total_authorized
           /\ total_unauthorized' = out.st.total_unauthorized
           /\ escaped' = IF IsException(out.raised) THEN None
                         ELSE out.raised
    /\ lock' = "free"
    /\ now' = now + 1
    /\ UNCHANGED <<acl_rules, system_load, cpu_usage, memory_usage, running>>

\* The parked values of the variables a specification does not use.
IdleQuery ==
    /\ flow = [src_ip |-> "", dst_ip |-> "", protocol |-> "", port |-> 0]
    /\ called = FALSE
    /\ verdict = FALSE

IdleObject ==
    /\ dev = <<>>
    /\ recorded = <<>>
    /\ network_data = <<>>
    /\ dashboard = <<>>

IdleAnalyzer ==
    /\ devices = <<>>
    /\ total_authorized = 0
    /\ total_unauthorized = 0
    /\ system_load = 0
    /\ cpu_usage = 0
    /\ memory_usage = <<>>
    /\ running = FALSE
    /\ lock = "free"

IdleSerial ==
    /\ serial_log = <<>>
    /\ packet_log = <<>>
    /\ escaped = None

IdleGui == [pc |-> "idle", i |-> 0, times |-> <<>>, values |-> <<>>,
            auth |-> <<>>]

IdleThreads ==
    /\ generators = <<>>
    /\ capture = "idle"
    /\ gui = IdleGui

Flows ==
    [src_ip : Addresses, dst_ip : Addresses, protocol : Protocols, port : Ports]

\* The flow is drawn when the specification starts; the call then answers it.
InitAcl ==
    /\ acl_rules = _initialize_acl_rules
    /\ flow \in Flows
    /\ called = FALSE
    /\ verdict = FALSE
    /\ now = 0
    /\ IdleObject
    /\ IdleAnalyzer
    /\ IdleSerial
    /\ IdleThreads

IsAuthorizedCall ==
    /\ ~called
    /\ called' = TRUE
    /\ verdict' = is_authorized(flow.src_ip, flow.dst_ip, flow.protocol, flow.port)
    /\ UNCHANGED <<acl_rules, flow, now, objVars, analyzerVars, serialVars,
                   threadVars>>

NextAcl == IsAuthorizedCall

SpecAcl == InitAcl /\ [][NextAcl]_vars

(***************************************************************************)
(* SpecDevice: one DeviceData object and sequential add_traffic_point      *)
(* calls on it.  The clock is read once per call and has advanced by one   *)
(* tick at the next call.                                                  *)
(***************************************************************************)
\* What the callers pass: an authorized sample, and an unauthorized one with
\* the tripled value; destination and protocol are optional.  A traffic
\* value v stands for the float nearest to v / 1000.
SampleInputs ==
    { [value |-> 1000, is_authorized |-> TRUE,
       dst_ip |-> "192.168.1.100", protocol |-> "TCP"],
      [value |-> 3000, is_authorized |-> FALSE,
       dst_ip |-> None, protocol |-> None] }

InitDevice ==
    /\ acl_rules = _initialize_acl_rules
    /\ IdleQuery
    /\ now = prefill
    /\ dev = DeviceData("192.168.1.100", "Server", prefill)
    /\ recorded = <<>>
    /\ network_data = <<>>
    /\ dashboard = <<>>
    /\ IdleAnalyzer
    /\ IdleSerial
    /\ IdleThreads

AddTrafficPoint ==
    \E s \in SampleInputs :
        /\ dev.total_packets < MaxCalls
        /\ s.is_authorized \/ dev.unauthorized_packets < MaxUnauthorized
        /\ dev' = add_traffic_point(dev, s.value, s.is_authorized,
                                    s.dst_ip, s.protocol, now)
        /\ recorded' = Append(recorded, <<now, s.value, s.is_authorized>>)
        /\ now' = now + 1
        /\ UNCHANGED <<acl_rules, queryVars, analyzerVars, serialVars,
                       threadVars, network_data, dashboard>>

NextDevice == AddTrafficPoint

SpecDevice == InitDevice /\ [][NextDevice]_vars

(***************************************************************************)
(* SpecSerial: a NetworkAnalyzer and sequential process_serial_data calls  *)
(* on lines drawn from a fixed set.                                        *)
(***************************************************************************)
\* Well-formed lines from monitored devices: authorized HTTP, authorized SSH
\* in the full seven-field format with its line end, and a refused UDP flow.
WellFormedLines ==
    { "192.168.1.101,192.168.1.100,TCP,80,512",
      "192.168.1.104,192.168.1.102,TCP,22,100.5,200,OK\n",
      "192.168.1.102,192.168.1.100,UDP,8080,12.5" }

\* A well-formed line whose source is not a monitored device.
UnknownSourceLines == { "10.0.0.99,192.168.1.100,TCP,80,512" }

\* Malformed lines: empty, four fields only, a port that is no integer
\* (a word, a decimal), a byte count that is no number (a word, nothing).
MalformedLines ==
    { "",
      "192.168.1.101,192.168.1.100,TCP,80",
      "192.168.1.101,192.168.1.100,TCP,http,512",
      "192.168.1.101,192.168.1.100,TCP,80.5,512",
      "192.168.1.101,192.168.1.100,TCP,80,lots",
      "192.168.1.101,192.168.1.100,TCP,80," }

SerialLines == WellFormedLines \cup UnknownSourceLines \cup MalformedLines

\* NetworkAnalyzer.__init__
InitSerial ==
    /\ acl_rules = _initialize_acl_rules
    /\ IdleQuery
    /\ IdleObject
    /\ now = prefill
    /\ running = FALSE
    /\ lock = "free"
    /\ devices = _initialize_devices(prefill)
    /\ memory_usage = [h \in 1..24 |-> 0]
    /\ system_load = 0
    /\ cpu_usage = 33700
    /\ total_authorized = 0
    /\ total_unauthorized = 0
    /\ serial_log = <<>>
    /\ packet_log = <<>>
    /\ escaped = None
    /\ IdleThreads

ProcessSerialData ==
    \E line \in SerialLines :
        /\ Len(serial_log) < MaxLines
        /\ process_serial_data(line)
        /\ serial_log' = Append(serial_log, line)
        /\ UNCHANGED <<queryVars, objVars, threadVars, packet_log>>

\* The flows is_authorized is asked about between the other operations: one
\* the table allows and one it does not.
ProbeFlows ==
    { [src_ip |-> "192.168.1.101", dst_ip |-> "192.168.1.100",
       protocol |-> "TCP", port |-> 80],
      [src_ip |-> "192.168.1.101", dst_ip |-> "192.168.1.100",
       protocol |-> "TCP", port |-> 8080] }

\* is_authorized(src_ip, dst_ip, protocol, port), called on the analyzer in
\* whatever state it is in.  The method assigns to nothing and takes no lock.
IsAuthorizedQuery ==
    \E f \in ProbeFlows :
        /\ flow' = f
        /\ called' = TRUE
        /\ verdict' = is_authorized(f.src_ip, f.dst_ip, f.protocol, f.port)
        /\ UNCHANGED <<acl_rules, objVars, now, analyzerVars, serialVars,
                       threadVars>>

NextSerial ==
    \/ ProcessSerialData
    \/ IsAuthorizedQuery

SpecSerial == InitSerial /\ [][NextSerial]_vars

(***************************************************************************)
(* Threads.  The thread that calls start_capture spawns a simulate_traffic *)
(* thread and waits in a loop; stop_capture clears the flag both poll; the *)
(* GUI thread refreshes the charts.  A step of a thread is one access to   *)
(* shared state, together with the local work that leads to it.            *)
(***************************************************************************)
\* min and max of Python, for two numbers.
Min(a, b) == IF a < b THEN a ELSE b
Max(a, b) == IF a > b THEN a ELSE b

\* The name under which a generator thread holds the lock.
ThreadName(k) == "generator " \o ToString(k)

NoSample == [value |-> 0, is_authorized |-> TRUE, dst_ip |-> None,
             protocol |-> None]

\* simulate_traffic: what the random draws give when there is traffic for
\* device ip: an authorized sample, or an unauthorized one with the tripled
\* value, to a device other than ip.
simulated_samples(ip) ==
    LET dst_candidates == SelectSeq(device_ips, LAMBDA d : d # ip)
    IN  { [value |-> 1000, is_authorized |-> TRUE,
           dst_ip |-> dst_candidates[1], protocol |-> "TCP"],
          [value |-> 3000, is_authorized |-> FALSE,
           dst_ip |-> dst_candidates[1], protocol |-> "UDP"] }

\* The samples the generators have recorded or begun to record: the clock
\* advances one tick with each.
SamplesTaken == now - prefill

\* Mutant: leaving the with block leaves the lock with its holder.
lock_kept(holder) == holder

\* with self.lock, left: Lock.__exit__ releases the lock.
lock_released(holder) == "free"

\* Mutant: a loop that does not look at the flag.
simulate_traffic_forever(flag) == TRUE

\* simulate_traffic: while self.running
simulate_traffic_continues(flag) == flag

\* NetworkAnalyzer.__init__, nothing started.
InitThreads ==
    /\ acl_rules = _initialize_acl_rules
    /\ IdleQuery
    /\ IdleObject
    /\ IdleSerial
    /\ now = prefill
    /\ running = FALSE
    /\ lock = "free"
    /\ devices = _initialize_devices(prefill)
    /\ memory_usage = [h \in 1..24 |-> 0]
    /\ system_load = 0
    /\ cpu_usage = 33700
    /\ total_authorized = 0
    /\ total_unauthorized = 0
    /\ IdleThreads

idleVars == <<acl_rules, queryVars, objVars, serialVars>>

\* start_capture, first statement: self.running = True.  Nothing in the
\* method looks at the threads started before; limit bounds the calls.
StartCaptureUpTo(limit) ==
    /\ capture = "idle"
    /\ Len(generators) < limit
    /\ running' = TRUE
    /\ capture' = "spawn"
    /\ UNCHANGED <<idleVars, now, devices, total_authorized,
                   total_unauthorized, system_load, cpu_usage, memory_usage,
                   lock, generators, gui>>

StartCapture == StartCaptureUpTo(MaxStarts)

\* start_capture: threading.Thread(target=self.simulate_traffic).start()
SpawnGenerator ==
    /\ capture = "spawn"
    /\ generators' = Append(generators,
                            [pc |-> "poll", i |-> 0, sample |-> NoSample])
    /\ capture' = "wait"
    /\ UNCHANGED <<idleVars, now, analyzerVars, gui>>

\* start_capture: while self.running: time.sleep(0.5); the call returns when
\* a poll finds the flag cleared (a poll that finds it set changes nothing).
CaptureWait ==
    /\ capture = "wait"
    /\ ~running
    /\ capture' = "idle"
    /\ UNCHANGED <<idleVars, now, analyzerVars, generators, gui>>

\* stop_capture
StopCapture ==
    /\ running' = FALSE
    /\ UNCHANGED <<idleVars, now, devices, total_authorized,
                   total_unauthorized, system_load, cpu_usage, memory_usage,
                   lock, threadVars>>

\* simulate_traffic: the loop condition.
GenPoll(k) ==
    /\ k \in 1..Len(generators)
    /\ generators[k].pc = "poll"
    /\ generators' = [generators EXCEPT ![k].pc =
                         IF simulate_traffic_continues(running)
                         THEN "acquire" ELSE "done"]
    /\ UNCHANGED <<idleVars, now, analyzerVars, capture, gui>>

\* simulate_traffic: with self.lock, entered; the pass starts at the first
\* device.
GenAcquire(k) ==
    /\ k \in 1..Len(generators)
    /\ generators[k].pc = "acquire"
    /\ lock = "free"
    /\ lock' = ThreadName(k)
    /\ generators' = [generators EXCEPT ![k].pc = "pass", ![k].i = 1]
    /\ UNCHANGED <<idleVars, now, devices, total_authorized,
                   total_unauthorized, system_load, cpu_usage, memory_usage,
                   running, capture, gui>>

\* simulate_traffic: no traffic drawn for device i of the pass.
GenNoTraffic(k) ==
    /\ k \in 1..Len(generators)
    /\ generators[k].pc = "pass"
    /\ generators[k].i <= Len(device_ips)
    /\ generators' = [generators EXCEPT ![k].i = @ + 1]
    /\ UNCHANGED <<idleVars, now, analyzerVars, capture, gui>>

\* simulate_traffic: traffic drawn for device i, and the first statement of
\* add_traffic_point: traffic_history.append.
GenAppendTraffic(k) ==
    /\ k \in 1..Len(generators)
    /\ generators[k].pc = "pass"
    /\ generators[k].i <= Len(device_ips)
    /\ SamplesTaken < MaxSamples
    /\ \E s \in simulated_samples(device_ips[generators[k].i]) :
          /\ devices' = [devices EXCEPT ![device_ips[generators[k].i]] =
                            append_traffic(@, s.value, s.is_authorized, now)]
          /\ generators' = [generators EXCEPT ![k].pc = "append_auth",
                                              ![k].sample = s]
    /\ now' = now + 1
    /\ UNCHANGED <<idleVars, total_authorized, total_unauthorized,
                   system_load, cpu_usage, memory_usage, running, lock,
                   capture, gui>>

\* add_traffic_point: auth_history.append.
GenAppendAuth(k) ==
    /\ k \in 1..Len(generators)
    /\ generators[k].pc = "append_auth"
    /\ devices' = [devices EXCEPT ![device_ips[generators[k].i]] =
                      append_auth(@, generators[k].sample.is_authorized)]
    /\ generators' = [generators EXCEPT ![k].pc = "counters"]
    /\ UNCHANGED <<idleVars, now, total_authorized, total_unauthorized,
                   system_load, cpu_usage, memory_usage, running, lock,
                   capture, gui>>

\* add_traffic_point: the counters, last_dst_ip and last_protocol.
GenCounters(k) ==
    /\ k \in 1..Len(generators)
    /\ generators[k].pc = "counters"
    /\ LET s == generators[k].sample
       IN  devices' = [devices EXCEPT ![device_ips[generators[k].i]] =
                          count_packet(@, s.is_authorized, s.dst_ip,
                                       s.protocol)]
    /\ generators' = [generators EXCEPT ![k].pc = "totals"]
    /\ UNCHANGED <<idleVars, now, total_authorized, total_unauthorized,
                   system_load, cpu_usage, memory_usage, running, lock,
                   capture, gui>>

\* simulate_traffic: the global counters, and on to the next device.
GenTotals(k) ==
    /\ k \in 1..Len(generators)
    /\ generators[k].pc = "totals"
    /\ IF generators[k].sample.is_authorized
       THEN /\ total_authorized' = total_authorized + 1
            /\ UNCHANGED total_unauthorized
       ELSE /\ total_unauthorized' = total_unauthorized + 1
            /\ UNCHANGED total_authorized
    /\ generators' = [generators EXCEPT ![k].pc = "pass", ![k].i = @ + 1,
                                        ![k].sample = NoSample]
    /\ UNCHANGED <<idleVars, now, devices, system_load, cpu_usage,
                   memory_usage, running, lock, capture, gui>>

\* simulate_traffic: traffic drawn for device i and recorded, as one step:
\* add_traffic_point and the global counters, all under the lock.
GenTraffic(k) ==
    /\ k \in 1..Len(generators)
    /\ generators[k].pc = "pass"
    /\ generators[k].i <= Len(device_ips)
    /\ SamplesTaken < MaxSamples
    /\ \E s \in simulated_samples(device_ips[generators[k].i]) :
          /\ devices' = [devices EXCEPT ![device_ips[generators[k].i]] =
                            add_traffic_point(@, s.value, s.is_authorized,
                                              s.dst_ip, s.protocol, now)]
          /\ IF s.is_authorized
             THEN /\ total_authorized' = total_authorized + 1
                  /\ UNCHANGED total_unauthorized
             ELSE /\ total_unauthorized' = total_unauthorized + 1
                  /\ UNCHANGED total_authorized
    /\ generators' = [generators EXCEPT ![k].i = @ + 1]
    /\ now' = now + 1
    /\ UNCHANGED <<idleVars, system_load, cpu_usage, memory_usage, running,
                   lock, capture, gui>>

\* simulate_traffic: the pass is over, the with statement releases the lock,
\* and after time.sleep(0.2) the loop condition is next.
GenRelease(k) ==
    /\ k \in 1..Len(generators)
    /\ generators[k].pc = "pass"
    /\ generators[k].i > Len(device_ips)
    /\ lock = ThreadName(k)
    /\ lock' = lock_released(lock)
    /\ generators' = [generators EXCEPT ![k].pc = "poll", ![k].i = 0]
    /\ UNCHANGED <<idleVars, now, devices, total_authorized,
                   total_unauthorized, system_load, cpu_usage, memory_usage,
                   running, capture, gui>>

\* update_all_charts: get_all_devices, with self.lock entered.
GuiGetAllDevices ==
    /\ gui.pc = "idle"
    /\ lock = "free"
    /\ lock' = "gui"
    /\ gui' = [gui EXCEPT !.pc = "copy"]
    /\ UNCHANGED <<idleVars, now, devices, total_authorized,
                   total_unauthorized, system_load, cpu_usage, memory_usage,
                   running, generators, capture>>

\* get_all_devices: dict(self.devices) is returned and the lock released.
\* The copy holds the same DeviceData objects, so the loop that follows reads
\* the shared records; it starts at the first device.
GuiCopy ==
    /\ gui.pc = "copy"
    /\ lock = "gui"
    /\ lock' = lock_released(lock)
    /\ gui' = [gui EXCEPT !.pc = "times", !.i = 1]
    /\ UNCHANGED <<idleVars, now, devices, total_authorized,
                   total_unauthorized, system_load, cpu_usage, memory_usage,
                   running, generators, capture>>

\* get_traffic_data of device i: times = [t for t, _, _ in traffic_history]
GuiTimes ==
    /\ gui.pc = "times"
    /\ gui' = [gui EXCEPT !.pc = "values",
                          !.times = get_traffic_data(devices[device_ips[gui.i]])[1],
                          !.values = <<>>,
                          !.auth = <<>>]
    /\ UNCHANGED <<idleVars, now, analyzerVars, generators, capture>>

\* get_traffic_data: values = [v for _, v, _ in traffic_history]
GuiValues ==
    /\ gui.pc = "values"
    /\ gui' = [gui EXCEPT !.pc = "auth",
                          !.values = get_traffic_data(devices[device_ips[gui.i]])[2]]
    /\ UNCHANGED <<idleVars, now, analyzerVars, generators, capture>>

\* get_traffic_data: auth = [a for _, _, a in traffic_history]; the lists go
\* to the chart data and the loop moves on, to the pie charts after the last
\* device.
GuiAuth ==
    /\ gui.pc = "auth"
    /\ gui' = [gui EXCEPT !.pc = IF gui.i < Len(device_ips) THEN "times"
                                 ELSE "load",
                          !.i = IF gui.i < Len(device_ips) THEN gui.i + 1
                                ELSE 0,
                          !.auth = get_traffic_data(devices[device_ips[gui.i]])[3]]
    /\ UNCHANGED <<idleVars, now, analyzerVars, generators, capture>>

\* update_all_charts: get_system_load(), the lock taken, the value read and
\* the lock released.
GuiLoad ==
    /\ gui.pc = "load"
    /\ lock = "free"
    /\ gui' = [IdleGui EXCEPT !.pc = "cpu"]
    /\ UNCHANGED <<idleVars, now, analyzerVars, generators, capture>>

\* What (np.random.random() - 0.5) * 2 adds to cpu_usage, in thousandths.
CpuJitter == {0}

\* update_all_charts: get_cpu_usage(), which moves cpu_usage under the lock.
GuiCpu ==
    /\ gui.pc = "cpu"
    /\ lock = "free"
    /\ \E delta \in CpuJitter :
          cpu_usage' = Min(100000, Max(0, cpu_usage + delta))
    /\ gui' = [gui EXCEPT !.pc = "memory"]
    /\ UNCHANGED <<idleVars, now, devices, total_authorized,
                   total_unauthorized, system_load, memory_usage, running,
                   lock, generators, capture>>

\* update_all_charts: get_memory_usage(), and the refresh is over.
GuiMemory ==
    /\ gui.pc = "memory"
    /\ lock = "free"
    /\ gui' = [gui EXCEPT !.pc = "idle"]
    /\ UNCHANGED <<idleVars, now, analyzerVars, generators, capture>>

NextThreads ==
    \/ StartCapture
    \/ SpawnGenerator
    \/ CaptureWait
    \/ StopCapture
    \/ \E k \in 1..Len(generators) : GenPoll(k)
    \/ \E k \in 1..Len(generators) : GenAcquire(k)
    \/ \E k \in 1..Len(generators) : GenNoTraffic(k)
    \/ \E k \in 1..Len(generators) : GenAppendTraffic(k)
    \/ \E k \in 1..Len(generators) : GenAppendAuth(k)
    \/ \E k \in 1..Len(generators) : GenCounters(k)
    \/ \E k \in 1..Len(generators) : GenTotals(k)
    \/ \E k \in 1..Len(generators) : GenRelease(k)
    \/ GuiGetAllDevices
    \/ GuiCopy
    \/ GuiTimes
    \/ GuiValues
    \/ GuiAuth
    \/ GuiLoad
    \/ GuiCpu
    \/ GuiMemory

SpecThreads == InitThreads /\ [][NextThreads]_vars

(***************************************************************************)
(* SpecCapture: starting and stopping.  No GUI thread runs here, so nothing *)
(* reads a device record while a generator works on it under the lock, and *)
(* recording a sample is one step of the pass.                             *)
(***************************************************************************)
NextCapture ==
    \/ StartCapture
    \/ SpawnGenerator
    \/ CaptureWait
    \/ StopCapture
    \/ \E k \in 1..Len(generators) : GenPoll(k)
    \/ \E k \in 1..Len(generators) : GenAcquire(k)
    \/ \E k \in 1..Len(generators) : GenNoTraffic(k)
    \/ \E k \in 1..Len(generators) : GenTraffic(k)
    \/ \E k \in 1..Len(generators) : GenRelease(k)

SpecCapture == InitThreads /\ [][NextCapture]_vars

\* Scheduling: a thread that can take a step takes it; a thread waiting for
\* the lock gets it when it is released often enough.  stop_capture and
\* start_capture are the user's and need not happen.
SpecCaptureFair ==
    /\ SpecCapture
    /\ WF_vars(SpawnGenerator)
    /\ WF_vars(CaptureWait)
    /\ \A k \in 1..MaxStarts :
          /\ WF_vars(GenPoll(k))
          /\ SF_vars(GenAcquire(k))
          /\ WF_vars(GenNoTraffic(k) \/ GenTraffic(k))
          /\ WF_vars(GenRelease(k))

(***************************************************************************)
(* SpecRestart: SpecCapture with start_capture called again after it has   *)
(* returned, up to MaxRestarts calls in all.                               *)
(***************************************************************************)
MaxRestarts == 2

StartCaptureAgain == StartCaptureUpTo(MaxRestarts)

NextRestart ==
    \/ StartCaptureAgain
    \/ SpawnGenerator
    \/ CaptureWait
    \/ StopCapture
    \/ \E k \in 1..Len(generators) : GenPoll(k)
    \/ \E k \in 1..Len(generators) : GenAcquire(k)
    \/ \E k \in 1..Len(generators) : GenNoTraffic(k)
    \/ \E k \in 1..Len(generators) : GenTraffic(k)
    \/ \E k \in 1..Len(generators) : GenRelease(k)

SpecRestart == InitThreads /\ [][NextRestart]_vars

(***************************************************************************)
(* SpecLock: the threads that take the lock, for one start_capture call:   *)
(* its simulate_traffic thread and the GUI thread.  Recording a sample is  *)
(* one step of the pass, and the loop of update_all_charts over the        *)
(* devices, which takes no lock, is one step of the GUI thread.            *)
(***************************************************************************)
\* start_capture, called once.
StartCaptureOnce == StartCaptureUpTo(1)

\* update_all_charts: the loop over the devices, get_traffic_data of each,
\* from the first to the last.
GuiReadDevices ==
    /\ gui.pc = "times"
    /\ gui' = [gui EXCEPT !.pc = "load", !.i = 0]
    /\ UNCHANGED <<idleVars, now, analyzerVars, generators, capture>>

NextLock ==
    \/ StartCaptureOnce
    \/ SpawnGenerator
    \/ CaptureWait
    \/ StopCapture
    \/ \E k \in 1..Len(generators) : GenPoll(k)
    \/ \E k \in 1..Len(generators) : GenAcquire(k)
    \/ \E k \in 1..Len(generators) : GenNoTraffic(k)
    \/ \E k \in 1..Len(generators) : GenTraffic(k)
    \/ \E k \in 1..Len(generators) : GenRelease(k)
    \/ GuiGetAllDevices
    \/ GuiCopy
    \/ GuiReadDevices
    \/ GuiLoad
    \/ GuiCpu
    \/ GuiMemory

SpecLock == InitThreads /\ [][NextLock]_vars

\* Scheduling: a thread inside a with block runs on to its end, and a
\* generator waiting for the lock gets it when it is free often enough.  The
\* GUI thread is under no obligation outside a with block: it may stop
\* between any two of its calls.
SpecLockFair ==
    /\ SpecLock
    /\ WF_vars(SpawnGenerator)
    /\ WF_vars(GuiCopy)
    /\ WF_vars(GenPoll(1))
    /\ SF_vars(GenAcquire(1))
    /\ WF_vars(GenNoTraffic(1) \/ GenTraffic(1))
    /\ WF_vars(GenRelease(1))

(***************************************************************************)
(* SpecGenerator: the capture and its simulate_traffic thread alone, with  *)
(* add_traffic_point taken statement by statement under the lock.          *)
(***************************************************************************)
NextGenerator ==
    \/ StartCapture
    \/ SpawnGenerator
    \/ CaptureWait
    \/ StopCapture
    \/ \E k \in 1..Len(generators) : GenPoll(k)
    \/ \E k \in 1..Len(generators) : GenAcquire(k)
    \/ \E k \in 1..Len(generators) : GenNoTraffic(k)
    \/ \E k \in 1..Len(generators) : GenAppendTraffic(k)
    \/ \E k \in 1..Len(generators) : GenAppendAuth(k)
    \/ \E k \in 1..Len(generators) : GenCounters(k)
    \/ \E k \in 1..Len(generators) : GenTotals(k)
    \/ \E k \in 1..Len(generators) : GenRelease(k)

SpecGenerator == InitThreads /\ [][NextGenerator]_vars

(***************************************************************************)
(* SpecAnalyzer: the analyzer of network_analyzer.py.  start_capture reads *)
(* serial lines in a loop until the flag is cleared or the capture fails;  *)
(* packets are handed to packet_callback or straight to process_packet.    *)
(***************************************************************************)
\* A packet: whether it has an IP layer, the addresses of that layer, its
\* transport layer ("TCP", "UDP", or another such as "ICMP"), the destination
\* port of a TCP or UDP layer, and len(packet).
NoIpPacket ==
    [has_ip |-> FALSE, src |-> None, dst |-> None, l4 |-> "ARP", dport |-> 0,
     len |-> 42]

IpPacket(src, dst, l4, dport, len) ==
    [has_ip |-> TRUE, src |-> src, dst |-> dst, l4 |-> l4, dport |-> dport,
     len |-> len]

Packets ==
    { NoIpPacket,
      IpPacket(UnknownIp, "192.168.1.100", "TCP", 80, 60),
      IpPacket("192.168.1.101", "192.168.1.100", "TCP", 80, 1500),
      IpPacket("192.168.1.101", "192.168.1.100", "TCP", 8080, 60),
      IpPacket("192.168.1.101", "192.168.1.100", "UDP", 53, 80),
      IpPacket("192.168.1.101", "192.168.1.100", "UDP", 80, 80),
      IpPacket("192.168.1.102", "192.168.1.100", "ICMP", 0, 98),
      IpPacket("192.168.1.104", UnknownIp, "TCP", 22, 60) }

\* What (np.random.random() - 0.5) * 5 adds to system_load, in thousandths.
LoadJitter == {0 - 2500, 1000}

\* process_packet: protocol and dport of a packet with an IP layer.
packet_protocol(packet) ==
    IF packet.l4 = "TCP" THEN "TCP"
    ELSE IF packet.l4 = "UDP" THEN "UDP"
    ELSE "OTHER"

packet_dport(packet) ==
    IF packet.l4 \in {"TCP", "UDP"} THEN packet.dport ELSE 0

\* Mutant: the flow is judged once more with port 0 when the counters are
\* updated.
global_verdict_port0(packet, is_auth) ==
    is_authorized(packet.src, packet.dst, packet_protocol(packet), 0)

\* process_packet: the is_authorized local, as the global counters read it.
global_verdict(packet, is_auth) == is_auth

\* NetworkAnalyzer.process_packet: the analyzer state it leaves behind, with
\* t what time.time() returns and jitter the random part of the load.  The
\* traffic value is len(packet) / 100.0, tripled when unauthorized.
process_packet(packet, jitter, t) ==
    LET here == [devices |-> devices,
                 total_authorized |-> total_authorized,
                 total_unauthorized |-> total_unauthorized,
                 system_load |-> system_load]
    IN  IF ~packet.has_ip THEN here
        ELSE IF packet.src \notin DOMAIN devices THEN here
        ELSE LET protocol == packet_protocol(packet)
                 dport == packet_dport(packet)
                 is_auth == is_authorized(packet.src, packet.dst, protocol,
                                          dport)
                 packet_size == 10 * packet.len
                 traffic_value == IF is_auth THEN packet_size
                                  ELSE 3 * packet_size
             IN  [devices |->
                     [devices EXCEPT ![packet.src] =
                         add_traffic_point(@, traffic_value, is_auth,
                                           packet.dst, protocol, t)],
                  total_authorized |->
                     IF global_verdict(packet, is_auth)
                     THEN total_authorized + 1 ELSE total_authorized,
                  total_unauthorized |->
                     IF global_verdict(packet, is_auth)
                     THEN total_unauthorized ELSE total_unauthorized + 1,
                  system_load |->
                     Min(100000, Max(0, system_load + jitter))]

\* Mutant: the callback does not look at the flag.
packet_callback_always(flag) == TRUE

\* packet_callback: if self.running
packet_callback_runs(flag) == flag

\* NetworkAnalyzer.__init__ of network_analyzer.py
InitAnalyzer ==
    /\ acl_rules = _initialize_acl_rules
    /\ IdleQuery
    /\ IdleObject
    /\ IdleSerial
    /\ now = prefill
    /\ running = FALSE
    /\ lock = "free"
    /\ devices = _initialize_devices(prefill)
    /\ memory_usage = [h \in 1..24 |-> 0]
    /\ system_load = 0
    /\ cpu_usage = 33700
    /\ total_authorized = 0
    /\ total_unauthorized = 0
    /\ IdleThreads

InputsTaken == Len(serial_log) + Len(packet_log)

\* The state a process_packet call leaves, and the log entry of the call: the
\* packet, the method it was handed to and the time.
PacketStep(packet, via, out) ==
    /\ devices' = out.devices
    /\ total_authorized' = out.total_authorized
    /\ total_unauthorized' = out.total_unauthorized
    /\ system_load' = out.system_load
    /\ packet_log' = Append(packet_log,
                            [packet |-> packet, via |-> via, at |-> now])
    /\ now' = now + 1
    /\ UNCHANGED <<acl_rules, queryVars, objVars, threadVars, cpu_usage,
                   memory_usage, running, lock, serial_log, escaped>>

\* process_packet(packet), called directly.
ProcessPacket ==
    \E packet \in Packets, jitter \in LoadJitter :
        /\ InputsTaken < MaxInputs
        /\ lock = "free"
        /\ PacketStep(packet, "process_packet",
                      process_packet(packet, jitter, now))

\* packet_callback(packet)
PacketCallback ==
    \E packet \in Packets, jitter \in LoadJitter :
        /\ InputsTaken < MaxInputs
        /\ lock = "free"
        /\ PacketStep(packet, "packet_callback",
                      IF packet_callback_runs(running)
                      THEN process_packet(packet, jitter, now)
                      ELSE [devices |-> devices,
                            total_authorized |-> total_authorized,
                            total_unauthorized |-> total_unauthorized,
                            system_load |-> system_load])

\* Mutant: the handler of start_capture leaves the flag as it is.
flag_after_failure_kept(flag) == flag

\* start_capture: except Exception: ... self.running = False
flag_after_failure(flag) == FALSE

\* What can go wrong in start_capture: the serial module is not installed,
\* the port cannot be opened, a read fails or yields bytes that are no UTF-8.
ImportFailures == {"ImportError"}
OpenFailures == {"SerialException"}
ReadFailures == {"SerialException", "UnicodeDecodeError"}

\* start_capture: an exception raised inside the try block.  An Exception is
\* caught, the flag is set and the call returns; anything else leaves the
\* call and the flag alone.  "failed" is the position of a caller whose call
\* returned through the handler.
CaptureRaises(exc) ==
    /\ running' = IF IsException(exc) THEN flag_after_failure(running)
                  ELSE running
    /\ escaped' = IF IsException(exc) THEN None ELSE exc
    /\ capture' = IF IsException(exc) THEN "failed" ELSE "idle"
    /\ UNCHANGED <<acl_rules, queryVars, objVars, now, devices,
                   total_authorized, total_unauthorized, system_load,
                   cpu_usage, memory_usage, lock, serial_log, packet_log,
                   generators, gui>>

\* start_capture, first statement: self.running = True.
SerialStart ==
    /\ capture \in {"idle", "failed"}
    /\ running' = TRUE
    /\ capture' = "import"
    /\ escaped' = None
    /\ UNCHANGED <<acl_rules, queryVars, objVars, now, devices,
                   total_authorized, total_unauthorized, system_load,
                   cpu_usage, memory_usage, lock, serial_log, packet_log,
                   generators, gui>>

\* start_capture: import serial
SerialImport ==
    /\ capture = "import"
    /\ capture' = "open"
    /\ UNCHANGED <<acl_rules, queryVars, objVars, now, analyzerVars,
                   serialVars, generators, gui>>

SerialImportFails ==
    /\ capture = "import"
    /\ \E exc \in ImportFailures : CaptureRaises(exc)

\* start_capture: ser = serial.Serial(serial_port, baud_rate)
SerialOpen ==
    /\ capture = "open"
    /\ capture' = "loop"
    /\ UNCHANGED <<acl_rules, queryVars, objVars, now, analyzerVars,
                   serialVars, generators, gui>>

SerialOpenFails ==
    /\ capture = "open"
    /\ \E exc \in OpenFailures : CaptureRaises(exc)

\* The lines the serial port delivers: the well-formed ones, one from a
\* source that is not monitored, one whose port is no integer.
CapturedLines ==
    WellFormedLines \cup UnknownSourceLines
        \cup { "192.168.1.101,192.168.1.100,TCP,http,512" }

\* start_capture: one turn of the loop with a line waiting: the flag is set,
\* the line is read and given to process_serial_data.
SerialRead ==
    \E line \in CapturedLines :
        /\ capture = "loop"
        /\ running
        /\ InputsTaken < MaxInputs
        /\ process_serial_data(line)
        /\ serial_log' = Append(serial_log, line)
        /\ UNCHANGED <<queryVars, objVars, threadVars, packet_log>>

\* start_capture: one turn of the loop in which ser.in_waiting or the read
\* raises.
SerialReadFails ==
    /\ capture = "loop"
    /\ running
    /\ \E exc \in ReadFailures : CaptureRaises(exc)

\* start_capture: the loop condition finds the flag cleared and the call
\* returns.
SerialReturn ==
    /\ capture = "loop"
    /\ ~running
    /\ capture' = "idle"
    /\ UNCHANGED <<acl_rules, queryVars, objVars, now, analyzerVars,
                   serialVars, generators, gui>>

NextAnalyzer ==
    \/ SerialStart
    \/ SerialImport
    \/ SerialImportFails
    \/ SerialOpen
    \/ SerialOpenFails
    \/ SerialRead
    \/ SerialReadFails
    \/ SerialReturn
    \/ StopCapture
    \/ ProcessPacket
    \/ PacketCallback

SpecAnalyzer == InitAnalyzer /\ [][NextAnalyzer]_vars

(***************************************************************************)
(* SpecNetworkData: the NetworkData class of the three dashboards.  The    *)
(* constructor calls _generate_next_data_point 60 times, and every         *)
(* update() calls it once more.  The values are random numbers: an entry   *)
(* of a list is represented by the number of the call that appended it,    *)
(* so that an entry of one list can be told from, and matched with, the    *)
(* entries of the others.                                                  *)
(***************************************************************************)
\* The files that define a NetworkData class.
Dashboards == {"futuristic_network_dashboard", "network_dashboard",
               "kubernetes_dashboard"}

\* len(self.timestamps) > 60, lst[-60:], range(60)
keep_last == 60
initial_points == 60

memory_keys == {"memory used", "memory buffers", "memory cached",
                "memory free"}

\* lst[-60:]
LastPoints(lst) ==
    IF Len(lst) > keep_last
    THEN SubSeq(lst, Len(lst) - keep_last + 1, Len(lst))
    ELSE lst

\* selected_device: None, or the index of a device.  A one-element tuple
\* stands for the index, the empty tuple for None.
NoDevice == <<>>
DeviceIndex(k) == <<k>>

\* not x, for x None or an int
py_not(x) == x = NoDevice \/ x[1] = 0

\* An object without the attribute last_data.
NoData == <<>>

\* NetworkData.__init__, up to the call of _generate_initial_data.  In the
\* futuristic dashboard auth_counts is the content [auth_count, unauth_count]
\* of the newest entry of auth_status, and a device's connection list is
\* represented by the number of the call that last changed it (0 for
\* _generate_connection_details), the empty list by the empty tuple.
NetworkData(kind) ==
    IF kind = "futuristic_network_dashboard"
    THEN [kind |-> kind, pc |-> "init", calls |-> 0, paused |-> FALSE,
          selected_device |-> NoDevice,
          current_auth_percent |-> FloatOfInt(85),
          current_unauth_percent |-> FloatOfInt(15),
          timestamps |-> <<>>, network_traffic |-> <<>>,
          system_load |-> <<>>, auth_status |-> <<>>,
          auth_counts |-> <<>>,
          traffic |-> [d \in 1..7 |-> <<>>],
          connections |-> [d \in 1..7 |-> <<>>],
          last_data |-> NoData]
    ELSE [kind |-> kind, pc |-> "init", calls |-> 0,
          timestamps |-> <<>>, network_traffic |-> <<>>,
          system_load |-> <<>>, disk_io |-> <<>>,
          memory_usage |-> [key \in memory_keys |-> <<>>],
          traffic |-> [d \in 1..7 |-> <<>>]]

\* if len(device['traffic']) > 60: device['traffic'] = device['traffic'][-60:]
\* device['traffic'].append(base_traffic)
trim_device_traffic(lst, t) ==
    Append(IF Len(lst) > keep_last THEN LastPoints(lst) ELSE lst, t)

\* What one call of _generate_next_data_point draws at random in the
\* futuristic dashboard: the devices whose random.random() < 0.15 makes
\* their traffic unauthorized, and the devices whose connection details
\* _update_connection_details changes (a 20% chance each).
UnauthorizedDraws == {1..k : k \in 0..7} \cup {{7}, {2, 5}}
TouchedDraws == {{}, {1}, 1..7}
Draws == [unauthorized : UnauthorizedDraws, touched : TouchedDraws]

\* Mutant: an unauthorized device is counted as authorized as well.
classify_devices_twice(unauthorized) ==
    <<7, Cardinality(unauthorized)>>

\* The loop over self.devices of _generate_next_data_point: each device
\* adds one to unauth_count or to auth_count.
classify_devices(unauthorized) ==
    <<Cardinality({d \in 1..7 : d \notin unauthorized}),
      Cardinality({d \in 1..7 : d \in unauthorized})>>

\* _update_connection_details: a device that is drawn and has connections
\* gets their byte and packet counts increased.
_update_connection_details(connections, touched, t) ==
    [d \in 1..7 |->
        IF d \in touched /\ connections[d] # <<>> THEN <<t>>
        ELSE connections[d]]

\* NetworkData._generate_next_data_point: the timestamp is appended, the
\* lists are cut to their last 60 entries when timestamps has more than 60,
\* and then each of the other lists gets its entry.
_generate_next_data_point(nd, draw) ==
    LET t == nd.calls + 1
        stamped == Append(nd.timestamps, t)
        over == Len(stamped) > keep_last
        cut(lst) == IF over THEN LastPoints(lst) ELSE lst
        common == [nd EXCEPT
                      !.calls = t,
                      !.timestamps = cut(stamped),
                      !.traffic = [d \in 1..7 |->
                                      trim_device_traffic(nd.traffic[d], t)],
                      !.network_traffic = Append(cut(@), t),
                      !.system_load = Append(cut(@), t)]
        counts == classify_devices(draw.unauthorized)
        total == counts[1] + counts[2]
    IN  IF nd.kind = "futuristic_network_dashboard"
        THEN [common EXCEPT
                 !.auth_status = Append(cut(@), t),
                 !.auth_counts = counts,
                 !.current_auth_percent =
                     IF total > 0
                     THEN FloatMulInt(FloatDiv(counts[1], total), 100)
                     ELSE @,
                 !.current_unauth_percent =
                     IF total > 0
                     THEN FloatMulInt(FloatDiv(counts[2], total), 100)
                     ELSE @,
                 !.connections =
                     _update_connection_details(@, draw.touched, t)]
        ELSE [common EXCEPT
                 !.memory_usage = [key \in memory_keys |->
                                      Append(cut(nd.memory_usage[key]), t)],
                 !.disk_io = Append(cut(@), t)]

\* The value of update() in the futuristic dashboard: the newest entries.
response(nd) ==
    [network_traffic |->
        [d \in 1..7 |-> nd.traffic[d][Len(nd.traffic[d])]],
     auth_percent |-> nd.current_auth_percent,
     unauth_percent |-> nd.current_unauth_percent,
     auth_counts |-> IF nd.auth_status # <<>> THEN nd.auth_counts
                     ELSE <<0, 0>>,
     network_history |-> nd.network_traffic,
     system_load |-> nd.system_load[Len(nd.system_load)],
     timestamp |-> nd.timestamps[Len(nd.timestamps)],
     connections |-> nd.connections,
     paused |-> nd.paused,
     selected_device |-> nd.selected_device]

\* Mutant: update() generates a point whether paused or not.
update_generates_always(paused) == TRUE

\* update(): if not self.paused
update_generates(paused) == ~paused

\* NetworkData.update.  The futuristic dashboard generates nothing while
\* paused and keeps what it returns in last_data; the other two always
\* generate.
update(nd, draw) ==
    IF nd.kind = "futuristic_network_dashboard"
    THEN LET after == IF update_generates(nd.paused)
                      THEN _generate_next_data_point(nd, draw)
                      ELSE nd
         IN  [after EXCEPT !.last_data = response(after)]
    ELSE _generate_next_data_point(nd, draw)

\* The dropdown of the futuristic dashboard: "All Devices" and one entry
\* for each of the 7 devices.
device_options ==
    {"All Devices"} \cup {"Device " \o ToString(i + 1) : i \in 0..6}

\* FuturisticNetworkDashboard.__init__: device_var.set("All Devices").  The
\* other two dashboards have no dropdown.
FuturisticNetworkDashboard(kind) ==
    IF kind = "futuristic_network_dashboard"
    THEN [device_var |-> "All Devices"]
    ELSE <<>>

\* _on_device_selected: what it makes of node_data, selected being
\* device_var.get().  A ValueError or IndexError of the parse is ignored.
_on_device_selected(nd, selected) ==
    IF selected = "All Devices"
    THEN [nd EXCEPT !.paused = FALSE, !.selected_device = NoDevice]
    ELSE LET fields == split(selected, " ")
         IN  IF Len(fields) < 2 THEN nd
             ELSE LET parsed == py_int(fields[2])
                      device_idx == parsed.value - 1
                  IN  IF parsed.raised # None THEN nd
                      ELSE IF 0 <= device_idx /\ device_idx < 7
                      THEN [nd EXCEPT !.paused = TRUE,
                                      !.selected_device =
                                          DeviceIndex(device_idx)]
                      ELSE nd

\* _on_network_leave: if not self.node_data.selected_device
_on_network_leave(nd) ==
    IF py_not(nd.selected_device) THEN [nd EXCEPT !.paused = FALSE] ELSE nd

InitNetworkData ==
    /\ acl_rules = _initialize_acl_rules
    /\ IdleQuery
    /\ now = 0
    /\ dev = <<>>
    /\ recorded = <<>>
    /\ network_data \in {NetworkData(kind) : kind \in Dashboards}
    /\ dashboard = FuturisticNetworkDashboard(network_data.kind)
    /\ IdleAnalyzer
    /\ IdleSerial
    /\ IdleThreads

\* _generate_initial_data: one turn of for _ in range(60).
GenerateInitialData ==
    /\ network_data.pc = "init"
    /\ network_data.calls < initial_points
    /\ \E draw \in Draws :
          network_data' = _generate_next_data_point(network_data, draw)
    /\ UNCHANGED <<acl_rules, queryVars, now, dev, recorded, dashboard,
                   analyzerVars, serialVars, threadVars>>

\* The loop of _generate_initial_data ends, the futuristic dashboard
\* generates the connection lists, and the constructor returns.
Constructed ==
    /\ network_data.pc = "init"
    /\ network_data.calls = initial_points
    /\ network_data' =
          IF network_data.kind = "futuristic_network_dashboard"
          THEN [network_data EXCEPT !.pc = "ready",
                                    !.connections = [d \in 1..7 |-> <<0>>]]
          ELSE [network_data EXCEPT !.pc = "ready"]
    /\ UNCHANGED <<acl_rules, queryVars, now, dev, recorded, dashboard,
                   analyzerVars, serialVars, threadVars>>

\* update_ui calls node_data.update().
Update ==
    /\ network_data.pc = "ready"
    /\ network_data.calls < initial_points + MaxUpdates
    /\ \E draw \in Draws : network_data' = update(network_data, draw)
    /\ UNCHANGED <<acl_rules, queryVars, now, dev, recorded, dashboard,
                   analyzerVars, serialVars, threadVars>>

\* The user picks an entry of the dropdown: the combobox sets device_var and
\* calls _on_device_selected.
OnDeviceSelected ==
    \E selected \in device_options :
        /\ network_data.pc = "ready"
        /\ network_data.kind = "futuristic_network_dashboard"
        /\ dashboard' = [dashboard EXCEPT !.device_var = selected]
        /\ network_data' = _on_device_selected(network_data, selected)
        /\ UNCHANGED <<acl_rules, queryVars, now, dev, recorded,
                       analyzerVars, serialVars, threadVars>>

\* The pointer enters the network chart: _on_network_hover.
OnNetworkHover ==
    /\ network_data.pc = "ready"
    /\ network_data.kind = "futuristic_network_dashboard"
    /\ network_data' = [network_data EXCEPT !.paused = TRUE]
    /\ UNCHANGED <<acl_rules, queryVars, now, dev, recorded, dashboard,
                   analyzerVars, serialVars, threadVars>>

\* The pointer leaves the network chart: _on_network_leave.
OnNetworkLeave ==
    /\ network_data.pc = "ready"
    /\ network_data.kind = "futuristic_network_dashboard"
    /\ network_data' = _on_network_leave(network_data)
    /\ UNCHANGED <<acl_rules, queryVars, now, dev, recorded, dashboard,
                   analyzerVars, serialVars, threadVars>>

NextNetworkData ==
    \/ GenerateInitialData
    \/ Constructed
    \/ Update
    \/ OnDeviceSelected
    \/ OnNetworkHover
    \/ OnNetworkLeave

SpecNetworkData == InitNetworkData /\ [][NextNetworkData]_vars

(***************************************************************************)
(* SpecCharts: the line charts of the three dashboards, LineChart of       *)
(* network_dashboard.py and of kubernetes_dashboard.py and                 *)
(* FuturisticLineChart, and update_data calls on one of them.  Call n      *)
(* passes the timestamp n and, for series i, the value 10 * n + i.         *)
(***************************************************************************)
\* The labels of system_load_chart: one data series each.
chart_labels == <<"load 1m", "load 5m", "load 15m">>

\* The points the charts keep: 60 in LineChart.update_data of
\* network_dashboard.py, max_points in that of kubernetes_dashboard.py, 30
\* in FuturisticLineChart.update_data.
chart_points == 60
max_points == 60
history_points == 30

\* Mutant: the first n items are kept.
FirstItems(lst, n) ==
    IF Len(lst) > n THEN SubSeq(lst, 1, n) ELSE lst

\* lst[-n:]
LastItems(lst, n) ==
    IF Len(lst) > n THEN SubSeq(lst, Len(lst) - n + 1, Len(lst)) ELSE lst

\* A value passed as new_values: a Python list of items, or a single number
\* (held as the one item of a value that is no list).
PyList(items) == [is_list |-> TRUE, items |-> items]
PyNumber(v) == [is_list |-> FALSE, items |-> <<v>>]

\* LineChart.__init__ and FuturisticLineChart.__init__: nothing plotted yet.
LineChart(kind) ==
    IF kind = "network_dashboard"
    THEN [timestamps |-> <<>>,
          data_series |-> [i \in 1..Len(chart_labels) |-> <<>>]]
    ELSE IF kind = "kubernetes_dashboard"
    THEN [timestamps |-> <<>>,
          data |-> [i \in 1..Len(chart_labels) |-> <<>>]]
    ELSE [data_history |-> <<>>]

\* LineChart.update_data of network_dashboard.py: the timestamp is appended
\* and the list cut, a value that is no list is wrapped, and every series
\* that has a value gets it appended and is cut.
update_data_network(chart, new_values, timestamp) ==
    LET stamped == Append(chart.timestamps, timestamp)
        values == IF ~new_values.is_list THEN <<new_values.items[1]>>
                  ELSE new_values.items
        appended(i) == Append(chart.data_series[i], values[i])
    IN  [timestamps |-> IF Len(stamped) > chart_points
                        THEN LastItems(stamped, chart_points)
                        ELSE stamped,
         data_series |->
            [i \in 1..Len(chart.data_series) |->
                IF i <= Len(values)
                THEN IF Len(appended(i)) > chart_points
                     THEN LastItems(appended(i), chart_points)
                     ELSE appended(i)
                ELSE chart.data_series[i]]]

\* LineChart.update_data of kubernetes_dashboard.py: the timestamp and the
\* values are appended, and when the timestamps are more than max_points
\* they and every series are cut.
update_data_kubernetes(chart, new_values, timestamp) ==
    LET stamped == Append(chart.timestamps, timestamp)
        values == new_values.items
        data == [i \in 1..Len(chart.data) |->
                    IF i <= Len(values)
                    THEN Append(chart.data[i], values[i])
                    ELSE chart.data[i]]
    IN  IF Len(stamped) > max_points
        THEN [timestamps |-> LastItems(stamped, max_points),
              data |-> [i \in 1..Len(data) |->
                           LastItems(data[i], max_points)]]
        ELSE [timestamps |-> stamped, data |-> data]

\* FuturisticLineChart.update_data: new_values joins data_history, which is
\* cut to its last 30.
update_data_futuristic(chart, new_values, timestamp) ==
    LET history == Append(chart.data_history, new_values.items)
    IN  [data_history |-> IF Len(history) > history_points
                          THEN LastItems(history, history_points)
                          ELSE history]

\* The points a chart of the dashboard keeps.
ChartKeeps(kind) ==
    IF kind = "network_dashboard" THEN chart_points
    ELSE IF kind = "kubernetes_dashboard" THEN max_points
    ELSE history_points

\* What call n may pass: a value for every series, as update_ui does; and, in
\* the first calls and once the chart is full, also a list with one value
\* only, or (where update_data accepts it) a number that is no list.
ChartInputs(kind, n) ==
    LET all == PyList([i \in 1..Len(chart_labels) |-> 10 * n + i])
        one == PyList(<<10 * n + 1>>)
        number == PyNumber(10 * n)
    IN  IF n <= MaxUpdates \/ n > ChartKeeps(kind)
        THEN IF kind = "network_dashboard" THEN {all, one, number}
             ELSE {all, one}
        ELSE {all}

InitCharts ==
    /\ acl_rules = _initialize_acl_rules
    /\ IdleQuery
    /\ now = 0
    /\ dev = <<>>
    /\ recorded = <<>>
    /\ network_data = <<>>
    /\ dashboard \in {[kind |-> kind, chart |-> LineChart(kind)] :
                          kind \in Dashboards}
    /\ IdleAnalyzer
    /\ IdleSerial
    /\ IdleThreads

\* One update_data call on the chart, with the next timestamp.
UpdateData(kind) ==
    /\ dashboard.kind = kind
    /\ Len(recorded) < ChartKeeps(kind) + MaxUpdates
    /\ \E new_values \in ChartInputs(kind, Len(recorded) + 1) :
          LET timestamp == Len(recorded) + 1
          IN  /\ dashboard' =
                    [dashboard EXCEPT !.chart =
                        IF kind = "network_dashboard"
                        THEN update_data_network(@, new_values, timestamp)
                        ELSE IF kind = "kubernetes_dashboard"
                        THEN update_data_kubernetes(@, new_values, timestamp)
                        ELSE update_data_futuristic(@, new_values, timestamp)]
              /\ recorded' = Append(recorded,
                                    [new_values |-> new_values,
                                     timestamp |-> timestamp])
    /\ UNCHANGED <<acl_rules, queryVars, now, dev, network_data,
                   analyzerVars, serialVars, threadVars>>

LineChartUpdateData == UpdateData("network_dashboard")

KubernetesLineChartUpdateData == UpdateData("kubernetes_dashboard")

FuturisticLineChartUpdateData == UpdateData("futuristic_network_dashboard")

NextCharts ==
    \/ LineChartUpdateData
    \/ KubernetesLineChartUpdateData
    \/ FuturisticLineChartUpdateData

SpecCharts == InitCharts /\ [][NextCharts]_vars

(***************************************************************************)
(* SpecMetrics: the random walks the programs keep inside a range.  Either *)
(* the NetworkData of a dashboard, of which only the walking values are    *)
(* kept here (its lists of history are in SpecNetworkData), or the         *)
(* system_load and cpu_usage of a NetworkAnalyzer.  Values are in          *)
(* thousandths.  The random.random() calls of one tick that decide about a *)
(* change of direction give one draw, all its other calls another; a draw  *)
(* is at one end of the range of random.random() or the other, and the     *)
(* ticks of the constructor all get the same draws.                        *)
(***************************************************************************)
\* Mutant: only the lower end is enforced.
clamp_from_below(lo, hi, x) == Max(lo, x)

\* max(lo, min(hi, x))
clamp(lo, hi, x) == Max(lo, Min(hi, x))

\* What random.random() returns, in thousandths: next to 0 or next to 1.
RandomDraws == {0, 1000}

\* NetworkData.__init__: the current metrics and load_values.  The
\* futuristic dashboard has load_values only.
Metrics(kind) ==
    IF kind = "futuristic_network_dashboard"
    THEN [kind |-> kind, pc |-> "init", calls |-> 0,
          load_values |-> <<[value |-> 150000, direction |-> 1],
                            [value |-> 180000, direction |-> 1],
                            [value |-> 120000, direction |-> 1]>>]
    ELSE [kind |-> kind, pc |-> "init", calls |-> 0,
          current_memory_percent |-> 68000,
          current_disk_percent |-> 13330,
          current_memory_gb |->
             [key \in memory_keys |->
                 IF key = "memory used" THEN 3100
                 ELSE IF key = "memory buffers" THEN 800
                 ELSE IF key = "memory cached" THEN 600
                 ELSE 500],
          load_values |-> <<[value |-> 150000, direction |-> 1],
                            [value |-> 180000, direction |-> 1],
                            [value |-> 120000, direction |-> 1]>>]

\* _generate_next_data_point: the system load lines.  A line changes its
\* direction when random.random() < 0.1, moves by random.random() * 15 in
\* its direction and is kept within 100 and 300.
next_load(load, flip, r) ==
    LET direction == IF flip < 100 THEN 0 - load.direction
                     ELSE load.direction
        change == (r * 15) * direction
    IN  [value |-> clamp(100000, 300000, load.value + change),
         direction |-> direction]

next_load_values(load_values, flip, r) ==
    << next_load(load_values[1], flip, r),
       next_load(load_values[2], flip, r),
       next_load(load_values[3], flip, r) >>

\* _generate_next_data_point: a memory value moves by
\* (random.random() - 0.5) * 0.05 and is kept within 0.1 and 4.0.
next_memory_gb(gb, r) == clamp(100, 4000, gb + (r - 500) \div 20)

\* _generate_next_data_point: the walking values of one tick.
next_metrics(m, flip, r) ==
    IF m.kind = "futuristic_network_dashboard"
    THEN [m EXCEPT !.calls = @ + 1,
                   !.load_values = next_load_values(@, flip, r)]
    ELSE [m EXCEPT
            !.calls = @ + 1,
            !.current_memory_percent =
                clamp(65000, 75000, @ + (r - 500) * 2),
            !.current_disk_percent = clamp(10000, 15000, @ + (r - 500)),
            !.load_values = next_load_values(@, flip, r),
            !.current_memory_gb =
                ("memory used" :> next_memory_gb(@["memory used"], r))
                @@ ("memory buffers" :> next_memory_gb(@["memory buffers"], r))
                @@ ("memory cached" :> next_memory_gb(@["memory cached"], r))
                @@ ("memory free" :> next_memory_gb(@["memory free"], r))]

\* _generate_initial_data: n ticks, one after the other, each worked out
\* before the next begins.
RECURSIVE initial_metrics(_, _, _, _)
initial_metrics(m, flip, r, n) ==
    LET next == next_metrics(m, flip, r)
    IN  IF n = 0 THEN m
        ELSE IF next.calls = m.calls + 1
        THEN initial_metrics(next, flip, r, n - 1)
        ELSE m

\* What (np.random.random() - 0.5) * 2 adds to cpu_usage when it moves.
CpuSteps == {0 - 1000, 1000}

InitMetrics ==
    /\ acl_rules = _initialize_acl_rules
    /\ IdleQuery
    /\ now = 0
    /\ dev = <<>>
    /\ recorded = <<>>
    /\ dashboard = <<>>
    /\ \/ /\ network_data \in {Metrics(kind) : kind \in Dashboards}
          /\ IdleAnalyzer
       \/ /\ network_data = [kind |-> "network_analyzer"]
          /\ devices = <<>>
          /\ total_authorized = 0
          /\ total_unauthorized = 0
          /\ system_load = 0
          /\ cpu_usage = 33700
          /\ memory_usage = <<>>
          /\ running = FALSE
          /\ lock = "free"
    /\ IdleSerial
    /\ IdleThreads

\* NetworkData.__init__, last statement: _generate_initial_data().
GenerateInitialMetrics ==
    /\ network_data.kind \in Dashboards
    /\ network_data.pc = "init"
    /\ \E flip \in RandomDraws, r \in RandomDraws :
          network_data' =
              [initial_metrics(network_data, flip, r, initial_points)
                  EXCEPT !.pc = "ready"]
    /\ UNCHANGED <<acl_rules, queryVars, now, dev, recorded, dashboard,
                   analyzerVars, serialVars, threadVars>>

\* One tick of a dashboard's NetworkData: update().
GenerateNextMetrics ==
    /\ network_data.kind \in Dashboards
    /\ network_data.pc = "ready"
    /\ network_data.calls < initial_points + MaxUpdates
    /\ \E flip \in RandomDraws, r \in RandomDraws :
          network_data' = next_metrics(network_data, flip, r)
    /\ UNCHANGED <<acl_rules, queryVars, now, dev, recorded, dashboard,
                   analyzerVars, serialVars, threadVars>>

\* process_packet, for a packet of a monitored device: its last statement,
\* which moves system_load.
ProcessPacketSystemLoad ==
    /\ network_data.kind = "network_analyzer"
    /\ lock = "free"
    /\ \E jitter \in LoadJitter :
          system_load' = Min(100000, Max(0, system_load + jitter))
    /\ UNCHANGED <<acl_rules, queryVars, now, objVars, devices,
                   total_authorized, total_unauthorized, cpu_usage,
                   memory_usage, running, lock, serialVars, threadVars>>

\* get_cpu_usage
GetCpuUsage ==
    /\ network_data.kind = "network_analyzer"
    /\ lock = "free"
    /\ \E delta \in CpuSteps :
          cpu_usage' = Min(100000, Max(0, cpu_usage + delta))
    /\ UNCHANGED <<acl_rules, queryVars, now, objVars, devices,
                   total_authorized, total_unauthorized, system_load,
                   memory_usage, running, lock, serialVars, threadVars>>

NextMetrics ==
    \/ GenerateInitialMetrics
    \/ GenerateNextMetrics
    \/ ProcessPacketSystemLoad
    \/ GetCpuUsage

SpecMetrics == InitMetrics /\ [][NextMetrics]_vars

(***************************************************************************)
(* Claims about is_authorized.                                             *)
(***************************************************************************)
\* Rule i of the table names the source, destination and protocol of f.
SameEndpoints(i, f) ==
    /\ acl_rules[i][1] = f.src_ip
    /\ acl_rules[i][2] = f.dst_ip
    /\ acl_rules[i][3] = f.protocol

\* Rule i of the table matches flow f: same fields, port inside lo..hi.
Covers(i, f) ==
    /\ SameEndpoints(i, f)
    /\ f.port \in acl_rules[i][4][1] .. acl_rules[i][4][2]

\* C1: is_authorized returns True if and only if the rule table holds at
\* least one rule with the flow's source, destination and protocol whose port
\* range lo..hi contains the flow's port; for every other flow it returns
\* False.
C1_AuthorizedIffSomeRule ==
    called =>
        verdict = (\E i \in 1..Len(acl_rules) : Covers(i, flow))

\* A call that a rule authorized and a call that no rule authorized.
C1_Witness ==
    /\ called
    /\ verdict = TRUE
    /\ flow = [src_ip |-> "192.168.1.103", dst_ip |-> "192.168.1.100",
               protocol |-> "TCP", port |-> 21]

\* C2: port bounds are inclusive on both ends. For a rule (lo, hi) naming the
\* flow's source, destination and protocol, ports lo and hi are authorized,
\* and lo-1 and hi+1 are not authorized by that rule (the call returns False
\* unless another rule covers the port); rule (22, 22) authorizes 22 and
\* neither 21 nor 23, rule (80, 443) authorizes 443 and not 444.
C2_InclusiveBounds ==
    called =>
        /\ \A i \in 1..Len(acl_rules) :
              SameEndpoints(i, flow) =>
                 LET lo == acl_rules[i][4][1]
                     hi == acl_rules[i][4][2]
                     other == \E j \in 1..Len(acl_rules) :
                                 j # i /\ Covers(j, flow)
                 IN /\ (flow.port \in {lo, hi}) => (verdict = TRUE)
                    /\ (flow.port \in {lo - 1, hi + 1} /\ ~other)
                          => (verdict = FALSE)
        /\ (/\ flow.src_ip = "192.168.1.104"
            /\ flow.dst_ip = "192.168.1.101"
            /\ flow.protocol = "TCP")
              => /\ (flow.port = 22) => (verdict = TRUE)
                 /\ (flow.port \in {21, 23}) => (verdict = FALSE)
        /\ (/\ flow.src_ip = "192.168.1.101"
            /\ flow.dst_ip = "192.168.1.100"
            /\ flow.protocol = "TCP")
              => /\ (flow.port = 443) => (verdict = TRUE)
                 /\ (flow.port = 444) => (verdict = FALSE)

\* The upper bound of the (80, 443) rule was tried and authorized.
C2_Witness ==
    /\ called
    /\ verdict = TRUE
    /\ flow = [src_ip |-> "192.168.1.101", dst_ip |-> "192.168.1.100",
               protocol |-> "TCP", port |-> 443]

(***************************************************************************)
(* Claims about DeviceData (SpecDevice).                                   *)
(***************************************************************************)
\* The last n items of a sequence (all of it when it is shorter).
LastN(q, n) == IF Len(q) <= n THEN q ELSE SubSeq(q, Len(q) - n + 1, Len(q))


\* The window get_traffic_data returns, as (time, value, authorized) triples.
Window(d) ==
    LET r == get_traffic_data(d)
    IN  [i \in 1..Len(r[1]) |-> <<r[1][i], r[2][i], r[3][i]>>]

\* C3: after every sequence of add_traffic_point calls the window is at most
\* 100 long and auth_history is as long as traffic_history.
C3_WindowBounded ==
    /\ Len(Window(dev)) <= 100
    /\ Len(dev.traffic_history) <= 100
    /\ Len(dev.auth_history) = Len(dev.traffic_history)

\* More calls than the capacity have been made.
C3_Witness ==
    /\ dev.total_packets = 101
    /\ Len(dev.traffic_history) = 100

\* C4 as stated: after k >= 1 calls the window is exactly the min(k, 100) most
\* recently recorded samples, oldest first, and nothing else.
C4_OnlyRecordedSamples ==
    Len(recorded) >= 1 =>
        Window(dev) = LastN(recorded, Min(Len(recorded), 100))

\* C4 amended: the window always holds 100 entries; its last min(k, 100)
\* entries are the min(k, 100) most recently recorded samples, oldest first,
\* and the entries before them are the latest 100 - min(k, 100) zero-traffic
\* entries of the constructor, so the window is the last 100 entries of the
\* constructor's entries followed by everything recorded.
C4_LastSamplesAfterPlaceholders ==
    LET k == Min(Len(recorded), 100)
        w == Window(dev)
    IN  /\ Len(w) = 100
        /\ SubSeq(w, 100 - k + 1, 100) = LastN(recorded, k)
        /\ SubSeq(w, 1, 100 - k) = LastN(InitialTraffic(prefill), 100 - k)
        /\ \A i \in 1..99 : w[i][1] < w[i + 1][1]

\* A sample has been evicted, and a window that still shows placeholders.
C4_Witness ==
    /\ Len(recorded) = 102
    /\ Window(dev)[1] = recorded[3]
    /\ ~recorded[1][3]

\* C5 as stated, for a DeviceData: with at least one sample recorded,
\* get_auth_percentage() + get_unauth_percentage() == 100.
C5_DevicePercentagesSumTo100 ==
    dev.total_packets >= 1 =>
        Plus(device_get_auth_percentage(dev),
             device_get_unauth_percentage(dev)) = FloatOfInt(100)

\* The number of authorized samples among everything recorded.
AuthorizedEver == Cardinality({i \in 1..Len(recorded) : recorded[i][3]})

\* C7: after more than 100 calls get_auth_percentage is the percentage
\* (a / k) * 100 of the a authorized calls among all k calls since
\* construction, evicted samples included, whatever the window holds.
C7_PercentageFromAllCalls ==
    Len(recorded) > 100 =>
        device_get_auth_percentage(dev)
            = FloatMulInt(FloatDiv(AuthorizedEver, Len(recorded)), 100)

\* After more than 100 calls the one unauthorized sample has left the window:
\* every sample of the window is authorized and the percentage is below 100.
C7_Witness ==
    /\ Len(recorded) > 100
    /\ \A i \in 1..Len(dev.traffic_history) : dev.traffic_history[i][3]
    /\ device_get_auth_percentage(dev) # FloatOfInt(100)


(***************************************************************************)
(* Claims about the analyzer's serial input (SpecSerial).                  *)
(***************************************************************************)
\* The source address a line names: the text before its first comma.
SourceOf(line) ==
    LET cuts == {i \in 1..Len(line) : CharAt(line, i) = ","}
    IN  IF cuts = {} THEN line
        ELSE SubSeq(line, 1, (CHOOSE i \in cuts : \A j \in cuts : i <= j) - 1)

\* The lines of the log that recorded a sample for device ip.
SamplesLogged(ip) ==
    {i \in 1..Len(serial_log) :
        serial_log[i] \in WellFormedLines /\ SourceOf(serial_log[i]) = ip}

\* C6: with no sample recorded the percentages are 100.0 and 0.0, for every
\* DeviceData without a recorded sample and for the NetworkAnalyzer, and no
\* division by zero is raised; the 100 placeholder entries of a device's
\* window are not counted as samples.
C6_DefaultsWithoutSamples ==
    /\ \A ip \in DOMAIN devices :
          SamplesLogged(ip) = {} =>
             /\ device_get_auth_percentage(devices[ip]) = FloatOfInt(100)
             /\ device_get_unauth_percentage(devices[ip]) = FloatZero
             /\ Len(get_traffic_data(devices[ip])[1]) = 100
             /\ devices[ip].total_packets = 0
    /\ (\A ip \in DOMAIN devices : SamplesLogged(ip) = {}) =>
          /\ get_auth_percentage = FloatOfInt(100)
          /\ get_unauth_percentage = FloatZero

\* One device has a sample and the analyzer a count, another device none.
C6_Witness ==
    /\ devices["192.168.1.101"].total_packets = 1
    /\ devices["192.168.1.102"].total_packets = 0
    /\ device_get_auth_percentage(devices["192.168.1.102"]) = FloatOfInt(100)
    /\ total_authorized = 1

GuiReading(ip) ==
    /\ gui.pc \in {"values", "auth"}
    /\ device_ips[gui.i] = ip

\* Generator k is inside add_traffic_point of device ip: traffic_history has
\* the new sample, auth_history or the counters do not have it yet.
GenInsideAppend(k, ip) ==
    /\ generators[k].pc \in {"append_auth", "counters"}
    /\ device_ips[generators[k].i] = ip

\* C8 as stated: in no reachable state is the GUI thread reading a device's
\* history while a generator thread is inside an append to that device.
C8_NoReadDuringAppend ==
    \A ip \in DOMAIN devices : \A k \in 1..Len(generators) :
        ~(GuiReading(ip) /\ GenInsideAppend(k, ip))

Terminated ==
    /\ capture = "idle"
    /\ \A k \in 1..Len(generators) : generators[k].pc = "done"

\* C9: a generator that polls the flag while it is cleared ends there, an
\* ended generator does nothing more, and samples are recorded by generators
\* inside a pass only, so a generator records nothing after the pass it was
\* in; and when the flag stays cleared from some point on
\* (stop_capture, and no start_capture after it), then from some point on
\* every generator has ended and the wait loop of start_capture has returned.
C9_StoppedCaptureTerminates ==
    /\ [][/\ \A k \in 1..Len(generators) :
              /\ (generators[k].pc = "poll" /\ ~running
                  /\ generators'[k] # generators[k])
                 => generators'[k].pc = "done"
              /\ generators[k].pc = "done" => generators'[k] = generators[k]
        /\ (devices' # devices
            \/ total_authorized' # total_authorized
            \/ total_unauthorized' # total_unauthorized)
           => \E j \in 1..Len(generators) : generators[j].pc = "pass"]_vars
    /\ (<>[](~running)) => <>[]Terminated

\* A capture ran, recorded a sample and was stopped: the generator has ended
\* and start_capture has returned.
C9_Witness ==
    /\ ~running
    /\ Len(generators) >= 1
    /\ Terminated
    /\ total_authorized + total_unauthorized >= 1

(***************************************************************************)
(* Claims about the analyzer's inputs (SpecAnalyzer).                      *)
(***************************************************************************)
\* A step that handed a packet to the analyzer, and that packet.
PacketArrives == Len(packet_log') = Len(packet_log) + 1
ArrivedPacket == packet_log'[Len(packet_log')]

\* A step that handed a serial line to the analyzer, and that line.
LineArrives == Len(serial_log') = Len(serial_log) + 1
ArrivedLine == serial_log'[Len(serial_log')]

\* The analyzer state is unchanged by the step.
AnalyzerUnchanged ==
    /\ devices' = devices
    /\ total_authorized' = total_authorized
    /\ total_unauthorized' = total_unauthorized
    /\ system_load' = system_load
    /\ cpu_usage' = cpu_usage
    /\ memory_usage' = memory_usage
    /\ running' = running
    /\ acl_rules' = acl_rules
    /\ lock' = lock

\* C11: a packet without an IP layer, a packet whose source is not a
\* monitored device, a packet given to packet_callback while running is
\* False, and a serial line whose source is not a monitored device each
\* leave the whole analyzer state unchanged and raise no error.
C11_DroppedInputsChangeNothing ==
    [][ /\ (PacketArrives
            /\ (\/ ~ArrivedPacket.packet.has_ip
                \/ ArrivedPacket.packet.src \notin DOMAIN devices
                \/ (ArrivedPacket.via = "packet_callback" /\ ~running)))
           => (AnalyzerUnchanged /\ escaped' = None)
        /\ (LineArrives /\ ArrivedLine \in UnknownSourceLines)
           => (AnalyzerUnchanged /\ escaped' = None)
      ]_vars

\* A recordable packet reached packet_callback while running was False and
\* a line from an unmonitored source was read: nothing is recorded.
C11_Witness ==
    /\ Len(packet_log) = 1
    /\ packet_log[1].via = "packet_callback"
    /\ packet_log[1].packet = IpPacket("192.168.1.101", "192.168.1.100",
                                       "TCP", 80, 1500)
    /\ serial_log = << "10.0.0.99,192.168.1.100,TCP,80,512" >>
    /\ total_authorized + total_unauthorized = 0
    /\ system_load = 0
    /\ \A ip \in DOMAIN devices : devices[ip].total_packets = 0

(***************************************************************************)
(* Further claims about is_authorized (SpecAcl).                           *)
(***************************************************************************)
KnownDevices == {device_ips[i] : i \in 1..Len(device_ips)}

\* C12: for a flow whose source or destination is not a known device the
\* call ends without an error and returns False.
C12_UnknownDeviceUnauthorized ==
    (called /\ (flow.src_ip \notin KnownDevices
                \/ flow.dst_ip \notin KnownDevices))
        => (verdict \in BOOLEAN /\ verdict = FALSE)

\* The administrator's SSH to an address that is no device was refused.
C12_Witness ==
    /\ called
    /\ flow = [src_ip |-> "192.168.1.104", dst_ip |-> UnknownIp,
               protocol |-> "TCP", port |-> 22]
    /\ verdict = FALSE

(***************************************************************************)
(* Claims about classification (SpecAnalyzer).                             *)
(***************************************************************************)
\* The entries of a device's window that were recorded at time t.
EntriesAt(ip, t) ==
    {i \in 1..Len(devices[ip].traffic_history) :
        devices[ip].traffic_history[i][1] = t}

\* C13: the protocol is compared exactly and with regard to case: with the
\* source, destination and a port of a "TCP" rule, the protocols "tcp", "UDP"
\* and "OTHER" are not matched by that rule; every packet recorded without
\* TCP or UDP layer was judged as protocol "OTHER", port 0, which is not
\* authorized, and is in the window as unauthorized, with the tripled value.
C13_ProtocolMatchIsExact ==
    /\ \A i \in 1..Len(acl_rules) :
          acl_rules[i][3] = "TCP" =>
             \A port \in {acl_rules[i][4][1], acl_rules[i][4][2]} :
                /\ \A p \in {"tcp", "UDP", "OTHER"} :
                      ~RuleApplies(acl_rules[i], acl_rules[i][1],
                                   acl_rules[i][2], p, port)
                /\ RuleApplies(acl_rules[i], acl_rules[i][1],
                               acl_rules[i][2], "TCP", port)
    /\ \A n \in 1..Len(packet_log) :
          LET e == packet_log[n]
              recorded_at == IF e.packet.src \in DOMAIN devices
                             THEN EntriesAt(e.packet.src, e.at) ELSE {}
          IN  (e.packet.has_ip /\ e.packet.l4 \notin {"TCP", "UDP"}) =>
                 /\ packet_protocol(e.packet) = "OTHER"
                 /\ packet_dport(e.packet) = 0
                 /\ ~is_authorized(e.packet.src, e.packet.dst, "OTHER", 0)
                 /\ (e.via = "process_packet"
                     /\ e.packet.src \in DOMAIN devices)
                       => recorded_at # {}
                 /\ \A i \in recorded_at :
                       devices[e.packet.src].traffic_history[i]
                          = <<e.at, 30 * e.packet.len, FALSE>>
                 /\ recorded_at # {} =>
                       /\ devices[e.packet.src].unauthorized_packets >= 1
                       /\ total_unauthorized >= 1

\* An ICMP packet of a monitored device was recorded, as unauthorized.
C13_Witness ==
    /\ Len(packet_log) = 1
    /\ packet_log[1].packet = IpPacket("192.168.1.102", "192.168.1.100",
                                       "ICMP", 0, 98)
    /\ devices["192.168.1.102"].traffic_history[100]
          = <<prefill, 2940, FALSE>>
    /\ devices["192.168.1.102"].last_protocol = "OTHER"
    /\ devices["192.168.1.102"].unauthorized_packets = 1
    /\ total_unauthorized = 1

\* The step recorded one flow of device ip, and the flag in the window, the
\* flag in auth_history, the device's counters and the global counters all
\* say v.
RecordedAs(ip, v) ==
    LET before == devices[ip]
        after == devices'[ip]
    IN  /\ after.traffic_history[Len(after.traffic_history)][3] = v
        /\ after.traffic_history[Len(after.traffic_history)][1] = now
        /\ after.auth_history[Len(after.auth_history)] = v
        /\ after.total_packets = before.total_packets + 1
        /\ after.authorized_packets
              = before.authorized_packets + (IF v THEN 1 ELSE 0)
        /\ after.unauthorized_packets
              = before.unauthorized_packets + (IF v THEN 0 ELSE 1)
        /\ total_authorized'
              = total_authorized + (IF v THEN 1 ELSE 0)
        /\ total_unauthorized'
              = total_unauthorized + (IF v THEN 0 ELSE 1)
        /\ \A other \in DOMAIN devices \ {ip} :
              devices'[other] = devices[other]

\* C14: for every flow that is recorded, by process_packet or by
\* process_serial_data, the flag appended to the window, the per-device
\* counter incremented and the global counter incremented all agree with
\* is_authorized(src, dst, protocol, port) of that flow.
C14_RecordedVerdictAgrees ==
    [][ /\ (PacketArrives
            /\ ArrivedPacket.packet.has_ip
            /\ ArrivedPacket.packet.src \in DOMAIN devices
            /\ (ArrivedPacket.via = "process_packet" \/ running))
           => RecordedAs(ArrivedPacket.packet.src,
                 is_authorized(ArrivedPacket.packet.src,
                               ArrivedPacket.packet.dst,
                               packet_protocol(ArrivedPacket.packet),
                               packet_dport(ArrivedPacket.packet)))
        /\ (LineArrives /\ ArrivedLine \in WellFormedLines)
           => LET data == split(strip(ArrivedLine), ",")
              IN  RecordedAs(data[1],
                     is_authorized(data[1], data[2], data[3],
                                   py_int(data[4]).value))
      ]_vars

\* An authorized packet and an unauthorized serial line were both recorded
\* for 192.168.1.101 and 192.168.1.102.
C14_Witness ==
    /\ Len(packet_log) = 1
    /\ packet_log[1].packet = IpPacket("192.168.1.101", "192.168.1.100",
                                       "TCP", 80, 1500)
    /\ serial_log = << "192.168.1.102,192.168.1.100,UDP,8080,12.5" >>
    /\ devices["192.168.1.101"].authorized_packets = 1
    /\ devices["192.168.1.101"].auth_history[maxlen] = TRUE
    /\ devices["192.168.1.102"].unauthorized_packets = 1
    /\ devices["192.168.1.102"].auth_history[maxlen] = FALSE
    /\ total_authorized = 1
    /\ total_unauthorized = 1

(***************************************************************************)
(* Claims about the capture (SpecAnalyzer).                                *)
(***************************************************************************)
\* C15: when capturing fails inside start_capture (the import of the serial
\* module fails, the port cannot be opened, a read raises) the exception is
\* caught there: the call returns, running is False on return and nothing
\* reaches the caller.
C15_CaptureFailureClearsRunning ==
    [][ (capture' = "failed" /\ capture # "failed")
           => /\ capture \in {"import", "open", "loop"}
              /\ running' = FALSE
              /\ escaped' = None
              /\ devices' = devices
      ]_vars

\* A capture that had read a line failed and returned with the flag cleared.
C15_Witness ==
    /\ capture = "failed"
    /\ Len(serial_log) = 1
    /\ running = FALSE
    /\ escaped = None

\* C16: the device set is fixed: in every reachable state devices has
\* exactly the seven keys 192.168.1.100 .. 192.168.1.106, and each key holds
\* the record of that address and name made at construction.
C16_DeviceSetFixed ==
    /\ DOMAIN devices = {"192.168.1.100", "192.168.1.101", "192.168.1.102",
                         "192.168.1.103", "192.168.1.104", "192.168.1.105",
                         "192.168.1.106"}
    /\ Cardinality(DOMAIN devices) = 7
    /\ \A ip \in DOMAIN devices :
          /\ devices[ip].ip = ip
          /\ \E i \in 1..Len(device_ips) :
                /\ device_ips[i] = ip
                /\ devices[ip].name = device_names[i]

\* Packets from an unmonitored source and to an unknown destination were
\* handled, one of them recorded, and the keys are the seven.
C16_Witness ==
    /\ Len(packet_log) = 2
    /\ packet_log[1].packet = IpPacket(UnknownIp, "192.168.1.100",
                                       "TCP", 80, 60)
    /\ packet_log[2].packet = IpPacket("192.168.1.104", UnknownIp,
                                       "TCP", 22, 60)
    /\ packet_log[2].via = "process_packet"
    /\ devices["192.168.1.104"].total_packets = 1
    /\ Cardinality(DOMAIN devices) = 7

(***************************************************************************)
(* Claims about the rule table (SpecAcl, SpecSerial).                      *)
(***************************************************************************)
\* The rules of the table that match the flow.
MatchingRules ==
    {i \in 1..Len(acl_rules) :
        RuleApplies(acl_rules[i], flow.src_ip, flow.dst_ip, flow.protocol,
                    flow.port)}

\* The table read backwards, and the table with its first k rules moved to
\* the end.
Reversed(rules) == [i \in 1..Len(rules) |-> rules[Len(rules) + 1 - i]]
Rotated(rules, k) ==
    [i \in 1..Len(rules) |-> rules[((i + k - 1) % Len(rules)) + 1]]
\* The table with rules i and j exchanged.
Swapped(rules, i, j) ==
    [n \in 1..Len(rules) |->
        IF n = i THEN rules[j] ELSE IF n = j THEN rules[i] ELSE rules[n]]

\* C18: the rules of the table do not overlap: at most one rule matches any
\* flow, so the result of is_authorized is that of the scan of the table in
\* any other order (backwards, rotated, two rules exchanged).
C18_RulesDoNotOverlap ==
    called =>
       /\ Cardinality(MatchingRules) <= 1
       /\ verdict = (MatchingRules # {})
       /\ verdict = ScanRules(Reversed(acl_rules), 1, flow.src_ip,
                              flow.dst_ip, flow.protocol, flow.port)
       /\ \A k \in 1..Len(acl_rules) - 1 :
             verdict = ScanRules(Rotated(acl_rules, k), 1, flow.src_ip,
                                 flow.dst_ip, flow.protocol, flow.port)
       /\ \A i \in MatchingRules : \A j \in 1..Len(acl_rules) :
             verdict = ScanRules(Swapped(acl_rules, i, j), 1, flow.src_ip,
                                 flow.dst_ip, flow.protocol, flow.port)

\* A flow between two devices that share two rules (ports 80..443 and 22),
\* matched by the second of them only.
C18_Witness ==
    /\ called
    /\ verdict
    /\ flow.src_ip = "192.168.1.104"
    /\ flow.dst_ip = "192.168.1.100"
    /\ flow.protocol = "TCP"
    /\ flow.port = 22
    /\ MatchingRules = {7}
    /\ Cardinality({i \in 1..Len(acl_rules) :
          /\ acl_rules[i][1] = flow.src_ip
          /\ acl_rules[i][2] = flow.dst_ip
          /\ acl_rules[i][3] = flow.protocol}) = 2

\* A step in which is_authorized was called.
QueryStep == <<flow, called, verdict>>' # <<flow, called, verdict>>

\* C19: the rule table is the one made at construction in every state, no
\* step changes it, a call of is_authorized changes nothing of the analyzer,
\* and the same flow gets the same answer in whatever state it is asked:
\* True for port 80 from 192.168.1.101 to the server, False for port 8080.
C19_RuleTableImmutable ==
    [][ /\ acl_rules = _initialize_acl_rules
        /\ acl_rules' = acl_rules
        /\ QueryStep =>
              /\ AnalyzerUnchanged
              /\ serial_log' = serial_log
              /\ packet_log' = packet_log
              /\ now' = now
        /\ called' =>
              /\ flow' \in ProbeFlows
              /\ verdict' = (flow'.port = 80)
      ]_vars

\* The allowed flow was asked about after authorized and unauthorized flows
\* were recorded, and is still allowed.
C19_Witness ==
    /\ called
    /\ flow.port = 80
    /\ verdict = TRUE
    /\ Len(serial_log) = MaxLines
    /\ total_authorized >= 1
    /\ total_unauthorized >= 1

(***************************************************************************)
(* Claims about the simulated NetworkData store (SpecNetworkData).         *)
(***************************************************************************)
\* The history lists of the NetworkData object other than timestamps.
HistorySeries ==
    {network_data.network_traffic, network_data.system_load}
       \cup {network_data.traffic[d] : d \in 1..7}
       \cup (IF network_data.kind = "futuristic_network_dashboard"
             THEN {network_data.auth_status}
             ELSE {network_data.disk_io}
                     \cup {network_data.memory_usage[key] :
                              key \in memory_keys})

\* C17: after every call of _generate_next_data_point, those of the
\* constructor and those of update, none of timestamps, network_traffic,
\* system_load, auth_status or disk_io and memory_usage, or a device's
\* traffic list holds more than 60 entries.
C17_HistoryKeepsLast60 ==
    /\ Len(network_data.timestamps) <= 60
    /\ \A lst \in HistorySeries : Len(lst) <= 60

\* C20: after every call of _generate_next_data_point every series has the
\* length of timestamps, and entry i of each series is that of the tick
\* labelled timestamps[i].
C20_SeriesAlignedWithTimestamps ==
    \A lst \in HistorySeries :
        /\ Len(lst) = Len(network_data.timestamps)
        /\ \A i \in 1..Len(lst) : lst[i] = network_data.timestamps[i]

\* A device is selected through the dropdown.
DeviceSelected ==
    /\ network_data.kind = "futuristic_network_dashboard"
    /\ network_data.pc = "ready"
    /\ dashboard.device_var # "All Devices"

\* C21: while one of the 7 devices is selected through the dropdown, paused
\* remains True after any sequence of hover and leave events; leaving the
\* chart resumes the generation only when no device is selected.
C21_PausedWhileDeviceSelected ==
    DeviceSelected => network_data.paused

\* A step of update() on the NetworkData of the futuristic dashboard: the
\* handlers change paused, selected_device or device_var or nothing at all.
UpdateStep ==
    /\ network_data.kind = "futuristic_network_dashboard"
    /\ network_data.pc = "ready"
    /\ network_data' # network_data
    /\ network_data'.paused = network_data.paused
    /\ network_data'.selected_device = network_data.selected_device
    /\ dashboard' = dashboard

\* What update() returns, without the two flags it copies.
LatestValues(data) ==
    [network_traffic |-> data.network_traffic,
     auth_percent |-> data.auth_percent,
     unauth_percent |-> data.unauth_percent,
     auth_counts |-> data.auth_counts,
     network_history |-> data.network_history,
     system_load |-> data.system_load,
     timestamp |-> data.timestamp,
     connections |-> data.connections]

\* The list new is the list old, or its last 60 entries, with the one entry
\* t after them.
OnePointAppended(old, new, t) ==
    /\ Len(new) >= 1
    /\ new[Len(new)] = t
    /\ \A i \in 1..(Len(new) - 1) : new[i] # t
    /\ SubSeq(new, 1, Len(new) - 1) \in {old, LastPoints(old)}

\* C22: while paused is True update() generates nothing: the lists, the
\* connection lists and the percentages are as before the call and the
\* latest values returned are those of the previous call; when paused is
\* False update() appends exactly one new point to each list.
C22_PausedUpdateGeneratesNothing ==
    [][ /\ (UpdateStep /\ network_data.paused) =>
              /\ [network_data' EXCEPT !.last_data = NoData]
                    = [network_data EXCEPT !.last_data = NoData]
              /\ network_data.last_data # NoData =>
                    LatestValues(network_data'.last_data)
                       = LatestValues(network_data.last_data)
        /\ (UpdateStep /\ ~network_data.paused) =>
              LET t == network_data.calls + 1
              IN  /\ network_data'.calls = t
                  /\ network_data'.timestamps
                        = LastPoints(Append(network_data.timestamps, t))
                  /\ OnePointAppended(network_data.network_traffic,
                                      network_data'.network_traffic, t)
                  /\ OnePointAppended(network_data.system_load,
                                      network_data'.system_load, t)
                  /\ OnePointAppended(network_data.auth_status,
                                      network_data'.auth_status, t)
                  /\ \A d \in 1..7 :
                        OnePointAppended(network_data.traffic[d],
                                         network_data'.traffic[d], t)
                  /\ network_data'.last_data.timestamp = t
      ]_vars

\* update() generated point 61, the pointer entered the chart, update() was
\* called again while paused, the pointer left, and update() generated
\* point 62 and was called once more while paused.
C22_Witness ==
    /\ network_data.kind = "futuristic_network_dashboard"
    /\ network_data.pc = "ready"
    /\ network_data.paused
    /\ network_data.selected_device = NoDevice
    /\ network_data.calls = 62
    /\ network_data.last_data # NoData
    /\ network_data.last_data.paused
    /\ network_data.last_data.timestamp = 62

\* C28: in the NetworkData of the futuristic dashboard every tick classifies
\* each of the 7 devices once, so the newest entry [auth_count,
\* unauth_count] of auth_status sums to 7 (and, entries never being changed
\* after their append, so does every entry), and current_auth_percent +
\* current_unauth_percent is 100 in every state, 85 + 15 before the first
\* tick.
C28_SevenDevicesPerTick ==
    network_data.kind = "futuristic_network_dashboard" =>
       /\ network_data.auth_status # <<>> =>
             /\ network_data.auth_counts[1] \in 0..7
             /\ network_data.auth_counts[2] \in 0..7
             /\ network_data.auth_counts[1] + network_data.auth_counts[2] = 7
       /\ network_data.auth_status = <<>> =>
             /\ network_data.current_auth_percent = FloatOfInt(85)
             /\ network_data.current_unauth_percent = FloatOfInt(15)
       /\ FloatAdd(network_data.current_auth_percent,
                   network_data.current_unauth_percent) = FloatOfInt(100)

\* An update() after the constructor found 3 of the 7 devices unauthorized:
\* 57.14285714285714 and 42.857142857142854 per cent.
C28_Witness ==
    /\ network_data.kind = "futuristic_network_dashboard"
    /\ network_data.calls = initial_points + 1
    /\ network_data.auth_counts = <<4, 3>>
    /\ network_data.current_auth_percent = FloatMulInt(FloatDiv(4, 7), 100)
    /\ network_data.current_unauth_percent = FloatMulInt(FloatDiv(3, 7), 100)
    /\ network_data.current_auth_percent # network_data.current_unauth_percent

(***************************************************************************)
(* C23: at any time at most one simulate_traffic thread is in its loop     *)
(* body, about to append or appending samples to the device records,       *)
(* whatever the sequence of start_capture and stop_capture calls.          *)
(***************************************************************************)
Appending == { k \in 1..Len(generators) :
                  generators[k].pc \in {"acquire", "pass"} }

C23_OneGeneratorAppending == Cardinality(Appending) <= 1

(***************************************************************************)
(* C24: the three lists one get_traffic_data call returns have the same    *)
(* length and are aligned: position i of times, values and auth is one     *)
(* sample of the device's window, also when a generator appends while the  *)
(* GUI thread is between get_all_devices and the end of the call.          *)
(***************************************************************************)
\* get_traffic_data has returned to update_all_charts: the three lists are
\* in hand, of the device the loop was at.
TrafficDataReturned == gui.auth # <<>>

ReturnedFrom ==
    device_ips[IF gui.pc = "load" THEN Len(device_ips) ELSE gui.i - 1]

\* The samples traffic_history of device ip has held: those of the
\* constructor and those appended since (fewer than maxlen).
SamplesOf(ip) ==
    { InitialTraffic(prefill)[j] : j \in 1..prefill }
        \cup { devices[ip].traffic_history[j] :
                   j \in 1..Len(devices[ip].traffic_history) }

C24_TrafficListsAligned ==
    TrafficDataReturned =>
        /\ Len(gui.times) = Len(gui.values)
        /\ Len(gui.values) = Len(gui.auth)
        /\ \A i \in 1..Len(gui.times) :
              <<gui.times[i], gui.values[i], gui.auth[i]>>
                  \in SamplesOf(ReturnedFrom)

(***************************************************************************)
(* C25: in every DeviceData total_packets is authorized_packets plus       *)
(* unauthorized_packets; add_traffic_point adds one to total_packets and   *)
(* one to exactly one of the other two, and nothing else moves them; and   *)
(* whenever the lock is free, total_authorized and total_unauthorized are  *)
(* the sums of the devices' authorized_packets and unauthorized_packets.   *)
(***************************************************************************)
RECURSIVE SumOverDevices(_, _)
SumOverDevices(n, field) ==
    IF n = 0 THEN 0
    ELSE devices[device_ips[n]][field] + SumOverDevices(n - 1, field)

DeviceCountersAdd ==
    \A ip \in DOMAIN devices :
        devices[ip].total_packets =
            devices[ip].authorized_packets + devices[ip].unauthorized_packets

TotalsAreSums ==
    lock = "free" =>
        /\ total_authorized =
              SumOverDevices(Len(device_ips), "authorized_packets")
        /\ total_unauthorized =
              SumOverDevices(Len(device_ips), "unauthorized_packets")

\* A generator executes the counter statements of add_traffic_point for
\* device ip in this step.
CountsSampleFor(ip) ==
    \E k \in 1..Len(generators) :
        /\ generators[k].pc = "counters"
        /\ generators'[k].pc = "totals"
        /\ device_ips[generators[k].i] = ip

AddTrafficPointCounts ==
    \A ip \in DOMAIN devices :
        LET d == devices[ip]
            e == devices'[ip]
        IN  IF CountsSampleFor(ip)
            THEN /\ e.total_packets = d.total_packets + 1
                 /\ \/ /\ e.authorized_packets = d.authorized_packets + 1
                       /\ e.unauthorized_packets = d.unauthorized_packets
                    \/ /\ e.authorized_packets = d.authorized_packets
                       /\ e.unauthorized_packets = d.unauthorized_packets + 1
            ELSE /\ e.total_packets = d.total_packets
                 /\ e.authorized_packets = d.authorized_packets
                 /\ e.unauthorized_packets = d.unauthorized_packets

InsideWith(holder) ==
    \/ holder = "gui" /\ gui.pc = "copy"
    \/ \E k \in 1..Len(generators) :
          holder = ThreadName(k) /\ generators[k].pc = "pass"

LockHeldInsideWithOnly ==
    /\ lock # "free" => InsideWith(lock)
    /\ gui.pc = "copy" => lock = "gui"
    /\ \A k \in 1..Len(generators) :
          generators[k].pc = "pass" => lock = ThreadName(k)

GeneratorWaits(k) == k <= Len(generators) /\ generators[k].pc = "acquire"

GeneratorSleeps(k) == k <= Len(generators) /\ generators[k].pc = "poll"

Newest(seq, n) ==
    LET m == IF Len(seq) < n THEN Len(seq) ELSE n
    IN  [j \in 1..m |-> seq[Len(seq) - m + j]]

\* The items call c gave the series: those of the list, or the one number.
ItemsPassed(c) == c.new_values.items

TimestampsPassed == [n \in 1..Len(recorded) |-> recorded[n].timestamp]

VectorsPassed == [n \in 1..Len(recorded) |-> recorded[n].new_values.items]

\* The values the calls so far passed for series i.
ValuesPassed(i) ==
    LET calls == SelectSeq(recorded, LAMBDA c : Len(ItemsPassed(c)) >= i)
    IN  [n \in 1..Len(calls) |-> ItemsPassed(calls[n])[i]]

C27_ChartsKeepNewestPoints ==
    LET chart == dashboard.chart
    IN  /\ dashboard.kind = "network_dashboard" =>
              /\ Len(chart.timestamps) <= 60
              /\ chart.timestamps = Newest(TimestampsPassed, 60)
              /\ \A i \in 1..Len(chart_labels) :
                    /\ Len(chart.data_series[i]) <= 60
                    /\ chart.data_series[i] = Newest(ValuesPassed(i), 60)
        /\ dashboard.kind = "kubernetes_dashboard" =>
              /\ Len(chart.timestamps) <= 60
              /\ chart.timestamps = Newest(TimestampsPassed, 60)
              /\ \A i \in 1..Len(chart_labels) :
                    /\ Len(chart.data[i]) <= 60
                    /\ chart.data[i] = Newest(ValuesPassed(i), 60)
        /\ dashboard.kind = "futuristic_network_dashboard" =>
              /\ Len(chart.data_history) <= 30
              /\ chart.data_history = Newest(VectorsPassed, 30)

\* The LineChart of kubernetes_dashboard.py after 62 calls, the last with one
\* value only: the first series ends with the value of call 62, the second
\* with that of call 61, and both were cut with the timestamps.
C27_Witness ==
    /\ dashboard.kind = "kubernetes_dashboard"
    /\ Len(recorded) = 62
    /\ Len(recorded[62].new_values.items) = 1
    /\ dashboard.chart.timestamps[1] = 3
    /\ dashboard.chart.data[1][60] = 621
    /\ Len(dashboard.chart.data[2]) = 60
    /\ dashboard.chart.data[2][60] = 612

(***************************************************************************)
(* C29: after every tick the system load lines are within 100 and 300,     *)
(* current_memory_percent within 65 and 75, current_disk_percent within 10 *)
(* and 15 and the memory values within 0.1 and 4.0 GB; system_load and     *)
(* cpu_usage of the analyzer are within 0 and 100.                         *)
(***************************************************************************)
C29_MetricsWithinRanges ==
    /\ network_data.kind \in Dashboards =>
          \A i \in 1..Len(network_data.load_values) :
              /\ network_data.load_values[i].value >= 100000
              /\ network_data.load_values[i].value <= 300000
    /\ network_data.kind \in {"network_dashboard", "kubernetes_dashboard"} =>
          /\ network_data.current_memory_percent >= 65000
          /\ network_data.current_memory_percent <= 75000
          /\ network_data.current_disk_percent >= 10000
          /\ network_data.current_disk_percent <= 15000
          /\ \A key \in memory_keys :
                /\ network_data.current_memory_gb[key] >= 100
                /\ network_data.current_memory_gb[key] <= 4000
    /\ network_data.kind = "network_analyzer" =>
          /\ system_load >= 0
          /\ system_load <= 100000
          /\ cpu_usage >= 0
          /\ cpu_usage <= 100000

\* The walks have run into their upper ends in the constructor, and the
\* tick after it has taken the gauges and the largest memory value one step
\* down from there; the second load line stands at 300.
C29_Witness ==
    /\ network_data.kind = "network_dashboard"
    /\ network_data.calls = initial_points + 1
    /\ network_data.current_memory_percent = 74000
    /\ network_data.current_disk_percent = 14500
    /\ network_data.load_values[2].value = 300000
    /\ network_data.current_memory_gb["memory used"] = 3975

====
